---- MODULE Spec2Model ----
(***************************************************************************)
(* A model of rust-lua: the lexer (src/src/lexer.rs), the parser            *)
(* (src/src/parser.rs), the tree-walking evaluator (src/src/vm.rs), the     *)
(* value model it computes with (src/src/value.rs) and the two drivers of   *)
(* src/src/main.rs.                                                         *)
(*                                                                         *)
(* The evaluator is a set of mutually recursive Rust methods.  The model   *)
(* makes the recursion explicit: kont is the stack of the activations of   *)
(* those methods (the topmost is the last element), each a record of the   *)
(* method's name (fn) and of its parameters and locals, and every action   *)
(* is one step of the topmost activation, up to its next call or its       *)
(* return.  ret holds the value the activation that returned last handed   *)
(* to its caller.                                                          *)
(*                                                                         *)
(* Number is an f64 in the source.  The model holds an f64 as the exact     *)
(* fraction n / d in lowest terms (d > 0), or, with d = 0, as an infinity   *)
(* (n = 1 or n = -1) or NaN (n = 0), and computes on it exactly: the        *)
(* rounding of f64 and the sign of its zero are not modelled.               *)
(***************************************************************************)
EXTENDS Integers, Sequences, FiniteSets, TLC

VARIABLES
    source,      \* the text the driver read last, a sequence of characters
    tokens,      \* what Lexer::tokenize made of it
    allocated,   \* how many tables Value::new_table has allocated
    globals,     \* Vm.globals: name -> Value
    call_stack,  \* Vm.call_stack: sequence of CallFrame.locals (name -> Value)
    kont,        \* the activations of the Vm's methods, innermost last
    ret,         \* the value returned by the activation that finished last
    status,      \* "idle" | "running" | "panicked" | "overflow"
    stmts,       \* run_repl's stmts: the program handed to Vm::execute last
    result,      \* run_repl's result: what the last Vm::execute returned
    execs        \* how many times run_repl has called Vm::execute

vars == <<source, tokens, allocated, globals, call_stack, kont, ret, status, stmts,
          result, execs>>

(***************************************************************************)
(* Bounds of the model.                                                    *)
(***************************************************************************)
\* Vm::execute is called at most this many times by the read-eval loop.
MaxExecs == 2
\* The host's stack holds at most this many nested user-function calls.
MaxDepth == 3

(***************************************************************************)
(* value.rs: the Value union.                                              *)
(***************************************************************************)
RECURSIVE Gcd(_, _)
Gcd(a, b) == IF b = 0 THEN a ELSE Gcd(b, a % b)
Abs(a) == IF a < 0 THEN 0 - a ELSE a
Sign(a) == IF a < 0 THEN -1 ELSE IF a > 0 THEN 1 ELSE 0

\* The f64 p / q.
F64(p, q) ==
    IF q = 0 THEN [n |-> Sign(p), d |-> 0]
    ELSE LET g == Gcd(Abs(p), Abs(q))
         IN [n |-> Sign(p) * Sign(q) * (Abs(p) \div g), d |-> Abs(q) \div g]

INFINITY == [n |-> 1, d |-> 0]
NAN == [n |-> 0, d |-> 0]
\* A finite f64 that rounds an irrational number: the model does not compute
\* it, and no operation of the model is defined on it.
Inexact == [n |-> 0, d |-> -1]
is_nan(x) == x.n = 0 /\ x.d = 0

\* The operators of f64: +, unary -, -, *, /, %, powf, <, <=, ==.
f64_add(x, y) ==
    IF x.d = 0 /\ y.d = 0 THEN (IF x.n = y.n THEN x ELSE NAN)
    ELSE F64(x.n * y.d + y.n * x.d, x.d * y.d)

f64_neg(x) == [n |-> 0 - x.n, d |-> x.d]

f64_sub(x, y) == f64_add(x, f64_neg(y))

f64_mul(x, y) == F64(x.n * y.n, x.d * y.d)

f64_recip(x) == IF x.n < 0 THEN F64(0 - x.d, 0 - x.n) ELSE F64(x.d, x.n)

f64_div(x, y) == f64_mul(x, f64_recip(y))

\* A finite x rounded toward zero.
f64_trunc(x) == F64(Sign(x.n) * (Abs(x.n) \div x.d), 1)

f64_rem(x, y) ==
    IF x.d = 0 \/ y.n = 0 THEN NAN
    ELSE IF y.d = 0 THEN x
    ELSE f64_sub(x, f64_mul(f64_trunc(f64_div(x, y)), y))

RECURSIVE f64_powi(_, _)
f64_powi(x, k) == IF k = 0 THEN F64(1, 1) ELSE f64_mul(x, f64_powi(x, k - 1))

\* The k-th roots of the positive finite x that are fractions.
Roots(x, k) ==
    {r \in {F64(a, b) : a \in 1..x.n, b \in 1..x.d} : f64_powi(r, k) = x}

f64_powf(x, y) ==
    IF y = F64(0, 1) \/ x = F64(1, 1) THEN F64(1, 1)
    ELSE IF is_nan(x) \/ is_nan(y) THEN NAN
    ELSE IF y.d = 1
    THEN (IF y.n > 0 THEN f64_powi(x, y.n) ELSE f64_recip(f64_powi(x, 0 - y.n)))
    ELSE IF y.d = 0
    THEN (IF Abs(x.n) = x.d THEN F64(1, 1)
          ELSE IF (Abs(x.n) > x.d) = (y.n > 0) THEN INFINITY ELSE F64(0, 1))
    ELSE IF x.n < 0 /\ x.d # 0 THEN NAN
    ELSE IF x.n = 0 \/ x.d = 0
    THEN (IF (x.n = 0) = (y.n > 0) THEN F64(0, 1) ELSE INFINITY)
    ELSE IF Roots(x, y.d) = {} THEN Inexact
    ELSE LET r == CHOOSE r \in Roots(x, y.d) : TRUE
         IN IF y.n > 0 THEN f64_powi(r, y.n) ELSE f64_recip(f64_powi(r, 0 - y.n))

f64_lt(x, y) ==
    /\ ~is_nan(x) /\ ~is_nan(y)
    /\ IF x.d = 0 /\ y.d = 0 THEN x.n < y.n ELSE x.n * y.d < y.n * x.d

f64_le(x, y) ==
    /\ ~is_nan(x) /\ ~is_nan(y)
    /\ IF x.d = 0 /\ y.d = 0 THEN x.n <= y.n ELSE x.n * y.d <= y.n * x.d

f64_eq(x, y) == ~is_nan(x) /\ x.n = y.n /\ x.d = y.d

Nil == [t |-> "Nil"]
Boolean(b) == [t |-> "Boolean", b |-> b]
\* Value::Number of the whole number n, and of the f64 x.
Number(n) == [t |-> "Number", n |-> n, d |-> 1]
NumberF64(x) == [t |-> "Number", n |-> x.n, d |-> x.d]
String(s) == [t |-> "String", s |-> s]

\* HashMap::new() and HashMap::insert, for maps keyed by a name.
EmptyMap == [n \in {} |-> Nil]
Insert(m, key, v) == [n \in (DOMAIN m) \cup {key} |-> IF n = key THEN v ELSE m[n]]

\* Value::Table: the Rc, named by the number of its allocation, and the
\* HashMap<Value, Value> behind it.  No statement stores into a table once
\* its constructor has returned it, so every clone of the Rc sees one map.
Table(ptr, entries) == [t |-> "Table", ptr |-> ptr, entries |-> entries]

Native(name) == [t |-> "Function", f |-> "Native", name |-> name]
UserDefined(parameters, body) ==
    [t |-> "Function", f |-> "UserDefined", parameters |-> parameters,
     body |-> body, closure |-> EmptyMap]

\* Option<f64>
None == [some |-> FALSE]
Some(n) == [some |-> TRUE, n |-> n]

is_truthy(v) ==
    CASE v.t = "Nil" -> FALSE
      [] v.t = "Boolean" -> v.b
      [] OTHER -> TRUE

\* str::parse::<f64> on the string literals the model's programs hold.
ParseF64(s) ==
    CASE s = "0" -> Some(F64(0, 1))
      [] s = "1" -> Some(F64(1, 1))
      [] s = "2" -> Some(F64(2, 1))
      [] s = "-3" -> Some(F64(-3, 1))
      [] s = "1.5" -> Some(F64(3, 2))
      [] s = "1e1" -> Some(F64(10, 1))
      [] s = "inf" -> Some(INFINITY)
      [] OTHER -> None

\* Value::to_number giving a Boolean no numeric value.
to_number_of_numbers(v) ==
    CASE v.t = "Number" -> Some([n |-> v.n, d |-> v.d])
      [] v.t = "String" -> ParseF64(v.s)
      [] OTHER -> None

to_number(v) ==
    CASE v.t = "Number" -> Some([n |-> v.n, d |-> v.d])
      [] v.t = "String" -> ParseF64(v.s)
      [] v.t = "Boolean" -> IF v.b THEN Some(F64(1, 1)) ELSE Some(F64(0, 1))
      [] OTHER -> None

add(a, b) ==
    IF to_number(a).some /\ to_number(b).some
    THEN NumberF64(f64_add(to_number(a).n, to_number(b).n)) ELSE Nil

subtract(a, b) ==
    IF to_number(a).some /\ to_number(b).some
    THEN NumberF64(f64_sub(to_number(a).n, to_number(b).n)) ELSE Nil

multiply(a, b) ==
    IF to_number(a).some /\ to_number(b).some
    THEN NumberF64(f64_mul(to_number(a).n, to_number(b).n)) ELSE Nil

divide(a, b) ==
    IF to_number(a).some /\ to_number(b).some
    THEN NumberF64(f64_div(to_number(a).n, to_number(b).n)) ELSE Nil

power(a, b) ==
    IF to_number(a).some /\ to_number(b).some
    THEN NumberF64(f64_powf(to_number(a).n, to_number(b).n)) ELSE Nil

modulo(a, b) ==
    IF to_number(a).some /\ to_number(b).some
    THEN NumberF64(f64_rem(to_number(a).n, to_number(b).n)) ELSE Nil

less_than(a, b) ==
    IF to_number(a).some /\ to_number(b).some
    THEN Boolean(f64_lt(to_number(a).n, to_number(b).n)) ELSE Boolean(FALSE)

less_equal(a, b) ==
    IF to_number(a).some /\ to_number(b).some
    THEN Boolean(f64_le(to_number(a).n, to_number(b).n)) ELSE Boolean(FALSE)

greater_than(a, b) ==
    IF to_number(a).some /\ to_number(b).some
    THEN Boolean(f64_lt(to_number(b).n, to_number(a).n)) ELSE Boolean(FALSE)

greater_equal(a, b) ==
    IF to_number(a).some /\ to_number(b).some
    THEN Boolean(f64_le(to_number(b).n, to_number(a).n)) ELSE Boolean(FALSE)

negate(v) == IF to_number(v).some THEN NumberF64(f64_neg(to_number(v).n)) ELSE Nil

not(v) == Boolean(~is_truthy(v))

\* Equality with a table equal to itself alone.
ValueEq_ByIdentity(a, b) ==
    CASE a.t # b.t -> FALSE
      [] a.t = "Function" -> FALSE
      [] a.t = "Number" -> f64_eq(a, b)
      [] a.t = "Table" -> a.ptr = b.ptr
      [] OTHER -> a = b

\* The derived PartialEq of Value.  Function's own eq compares the places of
\* two natives and calls no two user-defined functions equal: the operands of
\* an operator and the values of two maps are distinct places, so no two
\* Function values are equal.  Rc's eq is that of the maps, tried only when
\* the two Rc are not one; HashMap's eq is the same length and, for each key
\* of the one, an equal value under an equal key of the other.
RECURSIVE ValueEq(_, _)
ValueEq(a, b) ==
    CASE a.t # b.t -> FALSE
      [] a.t = "Function" -> FALSE
      [] a.t = "Number" -> f64_eq(a, b)
      [] a.t = "Table" ->
           \/ a.ptr = b.ptr
           \/ /\ Cardinality(DOMAIN a.entries) = Cardinality(DOMAIN b.entries)
              /\ \A k \in DOMAIN a.entries : \E j \in DOMAIN b.entries :
                     ValueEq(k, j) /\ ValueEq(a.entries[k], b.entries[j])
      [] OTHER -> a = b

\* HashMap<Value, Value>::get and ::insert: the key is found by Value's eq.
table_get(entries, key) ==
    IF \E k \in DOMAIN entries : ValueEq(k, key)
    THEN Some(entries[CHOOSE k \in DOMAIN entries : ValueEq(k, key)])
    ELSE None

table_insert(entries, key, v) ==
    LET at == IF \E k \in DOMAIN entries : ValueEq(k, key)
              THEN CHOOSE k \in DOMAIN entries : ValueEq(k, key) ELSE key
    IN [k \in (DOMAIN entries) \cup {at} |-> IF k = at THEN v ELSE entries[k]]

equal(a, b) == Boolean(ValueEq(a, b))

not_equal(a, b) == Boolean(~ValueEq(a, b))

\* The decimal digits of the whole number n, signed.
RECURSIVE FormatF64(_)
FormatF64(n) ==
    IF n < 0 THEN "-" \o FormatF64(0 - n)
    ELSE IF n >= 10 THEN FormatF64(n \div 10) \o FormatF64(n % 10)
    ELSE CASE n = 0 -> "0" [] n = 1 -> "1" [] n = 2 -> "2" [] n = 3 -> "3"
           [] n = 4 -> "4" [] n = 5 -> "5" [] n = 6 -> "6" [] n = 7 -> "7"
           [] n = 8 -> "8" [] OTHER -> "9"

\* The digits after the point of p / q, for 0 <= p < q and q a product of
\* twos and fives.
RECURSIVE FractionDigits(_, _)
FractionDigits(p, q) ==
    IF p = 0 THEN ""
    ELSE FormatF64((10 * p) \div q) \o FractionDigits((10 * p) % q, q)

RECURSIVE Terminates(_)
Terminates(q) ==
    IF q = 1 THEN TRUE
    ELSE IF q % 2 = 0 THEN Terminates(q \div 2)
    ELSE IF q % 5 = 0 THEN Terminates(q \div 5)
    ELSE FALSE

\* f64's Display, where the decimal expansion is finite.
DisplayF64(x) ==
    CASE x.d = 1 -> FormatF64(x.n)
      [] x.d = 0 -> (IF x.n = 0 THEN "NaN" ELSE IF x.n > 0 THEN "inf" ELSE "-inf")
      [] x.d > 1 /\ Terminates(x.d) ->
           (IF x.n < 0 THEN "-" ELSE "") \o FormatF64(Abs(x.n) \div x.d)
               \o "." \o FractionDigits(Abs(x.n) % x.d, x.d)

to_string(v) ==
    CASE v.t = "Nil" -> "nil"
      [] v.t = "Boolean" -> IF v.b THEN "true" ELSE "false"
      [] v.t = "Number" -> DisplayF64(v)
      [] v.t = "String" -> v.s
      [] v.t = "Table" -> "table"
      [] v.t = "Function" -> "function"

(***************************************************************************)
(* parser.rs: the AST the evaluator walks.                                 *)
(***************************************************************************)
\* Expr::Number of the whole number n, and of the f64 x.
ExprNumber(n) == [k |-> "Number", n |-> n, d |-> 1]
ExprNumberF64(x) == [k |-> "Number", n |-> x.n, d |-> x.d]
ExprString(s) == [k |-> "String", s |-> s]
ExprBoolean(b) == [k |-> "Boolean", b |-> b]
ExprNil == [k |-> "Nil"]
ExprIdentifier(name) == [k |-> "Identifier", name |-> name]
ExprUnaryOp(operator, operand) ==
    [k |-> "UnaryOp", operator |-> operator, operand |-> operand]
ExprBinaryOp(left, operator, right) ==
    [k |-> "BinaryOp", left |-> left, operator |-> operator, right |-> right]
ExprFunctionCall(name, arguments) ==
    [k |-> "FunctionCall", name |-> name, arguments |-> arguments]
ExprTableAccess(table, key) == [k |-> "TableAccess", table |-> table, key |-> key]
ExprTableConstructor(fields) == [k |-> "TableConstructor", fields |-> fields]
TableFieldValue(expr) == [k |-> "Value", expr |-> expr]
TableFieldKeyValue(key, expr) == [k |-> "KeyValue", key |-> key, expr |-> expr]

\* Option<Vec<Expr>>, Option<Expr>, Option<Vec<Stmt>>
Absent == [some |-> FALSE]
Present(x) == [some |-> TRUE, x |-> x]

StmtExpr(expr) == [k |-> "Expr", expr |-> expr]
StmtAssignment(variables, values) ==
    [k |-> "Assignment", variables |-> variables, values |-> values]
StmtLocalAssignment(variables, values) ==
    [k |-> "LocalAssignment", variables |-> variables, values |-> values]
StmtIf(condition, then_block, else_if_blocks, else_block) ==
    [k |-> "If", condition |-> condition, then_block |-> then_block,
     else_if_blocks |-> else_if_blocks, else_block |-> else_block]
StmtWhile(condition, body) == [k |-> "While", condition |-> condition, body |-> body]
StmtRepeat(body, condition) == [k |-> "Repeat", body |-> body, condition |-> condition]
StmtFor(variable, start, end, step, body) ==
    [k |-> "For", variable |-> variable, start |-> start, end |-> end,
     step |-> step, body |-> body]
StmtFunction(name, parameters, body) ==
    [k |-> "Function", name |-> name, parameters |-> parameters, body |-> body]
StmtLocalFunction(name, parameters, body) ==
    [k |-> "LocalFunction", name |-> name, parameters |-> parameters, body |-> body]
StmtReturn(values) == [k |-> "Return", values |-> values]
StmtBreak == [k |-> "Break"]

(***************************************************************************)
(* lexer.rs: the tokens and the lexer.  The source text is a sequence of   *)
(* characters, each a string of length one; the line counter of the lexer  *)
(* is read by nothing and left out.                                        *)
(***************************************************************************)
\* Token: the variants without a payload, by name
Token(name) == [tok |-> name]
TokenNumber(x) == [tok |-> "Number", n |-> x.n, d |-> x.d]
TokenString(s) == [tok |-> "String", s |-> s]
TokenIdentifier(s) == [tok |-> "Identifier", s |-> s]
EOF == Token("EOF")

\* Lexer::new: the keyword table
keywords ==
    ("and" :> Token("And")) @@ ("break" :> Token("Break")) @@ ("do" :> Token("Do")) @@
    ("else" :> Token("Else")) @@ ("elseif" :> Token("ElseIf")) @@ ("end" :> Token("End")) @@
    ("false" :> Token("False")) @@ ("for" :> Token("For")) @@
    ("function" :> Token("Function")) @@ ("if" :> Token("If")) @@ ("in" :> Token("In")) @@
    ("local" :> Token("Local")) @@ ("not" :> Token("Not")) @@ ("or" :> Token("Or")) @@
    ("repeat" :> Token("Repeat")) @@ ("return" :> Token("Return")) @@
    ("then" :> Token("Then")) @@ ("true" :> Token("True")) @@ ("until" :> Token("Until")) @@
    ("while" :> Token("While"))

is_ascii_digit(c) == c \in {"0", "1", "2", "3", "4", "5", "6", "7", "8", "9"}

is_ascii_alphabetic(c) ==
    c \in {"a", "b", "c", "d", "e", "f", "g", "h", "i", "j", "k", "l", "m",
           "n", "o", "p", "q", "r", "s", "t", "u", "v", "w", "x", "y", "z",
           "A", "B", "C", "D", "E", "F", "G", "H", "I", "J", "K", "L", "M",
           "N", "O", "P", "Q", "R", "S", "T", "U", "V", "W", "X", "Y", "Z"}

is_ascii_alphanumeric(c) == is_ascii_alphabetic(c) \/ is_ascii_digit(c)

\* Lexer::peek and Lexer::peek_next: the character at the cursor and the one
\* after it, if there is one
lexer_peek(src, position) ==
    IF position < Len(src) THEN Present(src[position + 1]) ELSE Absent

peek_next(src, position) == lexer_peek(src, position + 1)

\* Lexer::is_at_end (the sources are ASCII: bytes are characters)
lexer_is_at_end(src, position) == position >= Len(src)

\* Lexer::match_char: whether the character at the cursor is the expected one
\* (the caller then moves the cursor by one)
match_char(src, position, expected) ==
    lexer_peek(src, position) = Present(expected)

\* Lexer::skip_comment: the cursor at the end of the line
RECURSIVE skip_comment(_, _)
skip_comment(src, position) ==
    IF lexer_peek(src, position) \in {Absent, Present("\n")}
    THEN position
    ELSE skip_comment(src, position + 1)

\* Lexer::skip_whitespace: the cursor after blanks, line ends and comments
RECURSIVE skip_whitespace(_, _)
skip_whitespace(src, position) ==
    LET c == lexer_peek(src, position) IN
    IF ~c.some THEN position
    ELSE IF c.x \in {" ", "\r", "\t", "\n"}
    THEN skip_whitespace(src, position + 1)
    ELSE IF c.x = "-" /\ peek_next(src, position) = Present("-")
    THEN skip_whitespace(src, skip_comment(src, position))
    ELSE position

\* Option<Token> with the cursor the call leaves
Lexed(token, position) == [token |-> token, position |-> position]

\* Lexer::string: the escape of a character after a backslash
escape(escaped) ==
    CASE escaped = "n" -> "\n"
      [] escaped = "t" -> "\t"
      [] escaped = "r" -> "\r"
      [] OTHER -> escaped

\* Lexer::string, from the character after the opening quote; value is the
\* text collected so far.  Either quote closes; the end of the source does
\* not.
RECURSIVE string(_, _, _)
string(src, position, value) ==
    LET c == lexer_peek(src, position) IN
    IF ~c.some THEN Lexed(Absent, position)
    ELSE IF c.x \in {"\"", "'"}
    THEN Lexed(Present(TokenString(value)), position + 1)
    ELSE IF c.x = "\\"
    THEN IF peek_next(src, position).some
         THEN string(src, position + 2,
                     value \o escape(peek_next(src, position).x))
         ELSE string(src, position + 1, value)
    ELSE string(src, position + 1, value \o c.x)

\* The digit a character stands for
DigitValue(c) ==
    CASE c = "0" -> 0 [] c = "1" -> 1 [] c = "2" -> 2 [] c = "3" -> 3
      [] c = "4" -> 4 [] c = "5" -> 5 [] c = "6" -> 6 [] c = "7" -> 7
      [] c = "8" -> 8 [] c = "9" -> 9

\* str::parse::<f64> on digits and dots that begin with a digit: the text is
\* a number when it has at most one dot.  whole is the number the digits
\* read so far spell, scale the power of ten of the digits after the dot.
RECURSIVE parse_decimal(_, _, _, _)
parse_decimal(value, whole, scale, dotted) ==
    IF value = <<>> THEN Present(F64(whole, scale))
    ELSE IF Head(value) = "."
    THEN IF dotted THEN Absent
         ELSE parse_decimal(Tail(value), whole, scale, TRUE)
    ELSE parse_decimal(Tail(value), whole * 10 + DigitValue(Head(value)),
                       IF dotted THEN scale * 10 ELSE scale, dotted)

\* Lexer::number, from the character after the first; value is the
\* characters collected so far
RECURSIVE number(_, _, _)
number(src, position, value) ==
    LET c == lexer_peek(src, position) IN
    IF c.some /\ (is_ascii_digit(c.x) \/ c.x = ".")
    THEN number(src, position + 1, Append(value, c.x))
    ELSE LET parsed == parse_decimal(value, 0, 1, FALSE) IN
         Lexed(IF parsed.some THEN Present(TokenNumber(parsed.x)) ELSE Absent,
               position)

\* Lexer::identifier, from the character after the first; value is the text
\* collected so far
RECURSIVE identifier(_, _, _)
identifier(src, position, value) ==
    LET c == lexer_peek(src, position) IN
    IF c.some /\ (is_ascii_alphanumeric(c.x) \/ c.x = "_")
    THEN identifier(src, position + 1, value \o c.x)
    ELSE Lexed(Present(IF value \in DOMAIN keywords
                       THEN keywords[value]
                       ELSE TokenIdentifier(value)),
               position)

\* Lexer::next_token: the token at the cursor, if the text there is one, and
\* the cursor after it
next_token(src, position) ==
    LET start == skip_whitespace(src, position)
        c == src[start + 1]
        after == start + 1
        one(name) == Lexed(Present(Token(name)), after)
        two(name) == Lexed(Present(Token(name)), after + 1)
    IN
    IF lexer_is_at_end(src, start) THEN Lexed(Present(EOF), start)
    ELSE CASE c = "+" -> one("Plus")
           [] c = "-" -> one("Minus")
           [] c = "*" -> one("Multiply")
           [] c = "/" -> one("Divide")
           [] c = "%" -> one("Modulo")
           [] c = "^" -> one("Power")
           [] c = "#" -> one("Length")
           [] c = "(" -> one("LeftParen")
           [] c = ")" -> one("RightParen")
           [] c = "{" -> one("LeftBrace")
           [] c = "}" -> one("RightBrace")
           [] c = "[" -> one("LeftBracket")
           [] c = "]" -> one("RightBracket")
           [] c = ";" -> one("Semicolon")
           [] c = "," -> one("Comma")
           [] c = "=" -> IF match_char(src, after, "=")
                         THEN two("Equal") ELSE one("Assign")
           [] c = "<" -> IF match_char(src, after, "=")
                         THEN two("LessEqual") ELSE one("LessThan")
           [] c = ">" -> IF match_char(src, after, "=")
                         THEN two("GreaterEqual") ELSE one("GreaterThan")
           [] c = "~" -> IF match_char(src, after, "=")
                         THEN two("NotEqual") ELSE Lexed(Absent, after)
           [] c = "." -> IF match_char(src, after, ".")
                         THEN IF match_char(src, after + 1, ".")
                              THEN Lexed(Present(Token("Ellipsis")), after + 2)
                              ELSE two("DoubleDot")
                         ELSE one("Dot")
           [] c = ":" -> one("Colon")
           [] c \in {"\"", "'"} -> string(src, after, "")
           [] OTHER ->
                IF is_ascii_digit(c) THEN number(src, after, <<c>>)
                ELSE IF is_ascii_alphabetic(c) \/ c = "_"
                THEN identifier(src, after, c)
                ELSE Lexed(Absent, after)

\* Lexer::tokenize, from the cursor on; tokens is the vector so far.  The
\* loop ends after pushing EOF, and also when next_token returns no token.
RECURSIVE tokenize_from(_, _, _)
tokenize_from(src, position, toks) ==
    LET next == next_token(src, position) IN
    IF ~next.token.some THEN toks
    ELSE IF next.token.x = EOF THEN Append(toks, EOF)
    ELSE tokenize_from(src, next.position, Append(toks, next.token.x))

\* Lexer::new(source).tokenize()
tokenize(src) == tokenize_from(src, 0, <<>>)

(***************************************************************************)
(* parser.rs: the parser.  Each parse function is an operator of the       *)
(* token vector and the cursor that gives the Option the function returns  *)
(* and the cursor it leaves, also when it returns early.                   *)
(***************************************************************************)
Parsed(r, position) == [r |-> r, position |-> position]

\* Parser::is_at_end, were it to look at the length alone
is_at_end_by_length(toks, position) == position >= Len(toks)

\* Parser::is_at_end
is_at_end(toks, position) ==
    position >= Len(toks) \/ toks[position + 1] = EOF

\* Parser::check
check(toks, position, token) ==
    ~is_at_end(toks, position) /\ toks[position + 1] = token

\* Parser::match_token with one token: whether it is at the cursor (the
\* caller then moves the cursor by one)
match_token(toks, position, token) == check(toks, position, token)

\* Parser::advance
advance(toks, position) ==
    IF is_at_end(toks, position)
    THEN Parsed(Absent, position)
    ELSE Parsed(Present(toks[position + 1]), position + 1)

\* Parser::consume: the cursor after the token if it is there, the same
\* cursor if it is not
consume(toks, position, token) ==
    IF check(toks, position, token) THEN position + 1 ELSE position

\* Parser::peek
peek(toks, position) ==
    IF is_at_end(toks, position) THEN Absent ELSE Present(toks[position + 1])

\* Parser::match_binary_op: the operator of the token at the cursor (the
\* caller then moves the cursor by one)
match_binary_op(toks, position) ==
    LET token == peek(toks, position) IN
    IF ~token.some THEN Absent
    ELSE CASE token.x = Token("Plus") -> Present("Add")
           [] token.x = Token("Minus") -> Present("Subtract")
           [] token.x = Token("Multiply") -> Present("Multiply")
           [] token.x = Token("Divide") -> Present("Divide")
           [] token.x = Token("Power") -> Present("Power")
           [] token.x = Token("Equal") -> Present("Equal")
           [] token.x = Token("NotEqual") -> Present("NotEqual")
           [] token.x = Token("LessThan") -> Present("LessThan")
           [] token.x = Token("LessEqual") -> Present("LessEqual")
           [] token.x = Token("GreaterThan") -> Present("GreaterThan")
           [] token.x = Token("GreaterEqual") -> Present("GreaterEqual")
           [] token.x = Token("And") -> Present("And")
           [] token.x = Token("Or") -> Present("Or")
           [] OTHER -> Absent

\* Parser::match_unary_op, likewise
match_unary_op(toks, position) ==
    LET token == peek(toks, position) IN
    IF ~token.some THEN Absent
    ELSE CASE token.x = Token("Not") -> Present("Not")
           [] token.x = Token("Minus") -> Present("Minus")
           [] token.x = Token("Length") -> Present("Length")
           [] OTHER -> Absent

\* The ? of the parse functions: an absent x is returned as it is, with the
\* cursor x leaves; a present x goes on into F.
Try(x, F(_)) == IF x.r.some THEN F(x) ELSE Parsed(Absent, x.position)

RECURSIVE parse_statement(_, _), parse_block(_, _), parse_expression(_, _),
          parse_unary(_, _)

\* Parser::parse_primary
parse_primary(toks, position) ==
    Try(advance(toks, position), LAMBDA token :
        CASE token.r.x.tok = "Number" ->
                Parsed(Present(ExprNumberF64(token.r.x)), token.position)
          [] token.r.x.tok = "String" ->
                Parsed(Present(ExprString(token.r.x.s)), token.position)
          [] token.r.x.tok = "Boolean" ->
                Parsed(Present(ExprBoolean(token.r.x.b)), token.position)
          [] token.r.x.tok = "Nil" -> Parsed(Present(ExprNil), token.position)
          [] token.r.x.tok = "Identifier" ->
                Parsed(Present(ExprIdentifier(token.r.x.s)), token.position)
          [] token.r.x.tok = "LeftParen" ->
                Try(parse_expression(toks, token.position), LAMBDA expr :
                    Parsed(expr.r, consume(toks, expr.position, Token("RightParen"))))
          [] OTHER -> Parsed(Absent, token.position))

\* Parser::parse_unary
parse_unary(toks, position) ==
    LET op == match_unary_op(toks, position) IN
    IF op.some
    THEN Try(parse_unary(toks, position + 1), LAMBDA operand :
             Parsed(Present(ExprUnaryOp(op.x, operand.r.x)), operand.position))
    ELSE parse_primary(toks, position)

\* Parser::parse_binary: the while loop, with the tree built so far
RECURSIVE parse_binary_loop(_, _, _)
parse_binary_loop(toks, position, left) ==
    LET op == match_binary_op(toks, position) IN
    IF ~op.some THEN Parsed(Present(left), position)
    ELSE Try(parse_unary(toks, position + 1), LAMBDA right :
             parse_binary_loop(toks, right.position,
                               ExprBinaryOp(left, op.x, right.r.x)))

\* Parser::parse_binary
parse_binary(toks, position) ==
    Try(parse_unary(toks, position), LAMBDA left :
        parse_binary_loop(toks, left.position, left.r.x))

\* Parser::parse_expression
parse_expression(toks, position) == parse_binary(toks, position)

\* The loop of parse_assignment, parse_local and parse_return that collects
\* expressions separated by commas; values is the vector so far
RECURSIVE parse_values(_, _, _)
parse_values(toks, position, values) ==
    Try(parse_expression(toks, position), LAMBDA expr :
        IF match_token(toks, expr.position, Token("Comma"))
        THEN parse_values(toks, expr.position + 1, Append(values, expr.r.x))
        ELSE Parsed(Present(Append(values, expr.r.x)), expr.position))

\* Parser::parse_assignment: the loop that collects the further variables
RECURSIVE parse_variables(_, _, _)
parse_variables(toks, position, variables) ==
    IF ~match_token(toks, position, Token("Comma"))
    THEN Parsed(Present(variables), position)
    ELSE Try(parse_expression(toks, position + 1), LAMBDA expr :
             IF expr.r.x.k # "Identifier" THEN Parsed(Absent, expr.position)
             ELSE parse_variables(toks, expr.position,
                                  Append(variables, expr.r.x.name)))

\* Parser::parse_assignment
parse_assignment(toks, position, first) ==
    IF first.k # "Identifier" THEN Parsed(Absent, position)
    ELSE Try(parse_variables(toks, position, <<first.name>>), LAMBDA variables :
         Try(parse_values(toks, consume(toks, variables.position, Token("Assign")),
                          <<>>), LAMBDA values :
             Parsed(Present(StmtAssignment(variables.r.x, values.r.x)),
                    values.position)))

\* The loop of parse_local and parse_parameters that collects names separated
\* by commas; names is the vector so far
RECURSIVE parse_names(_, _, _)
parse_names(toks, position, names) ==
    Try(advance(toks, position), LAMBDA token :
        IF token.r.x.tok # "Identifier" THEN Parsed(Absent, token.position)
        ELSE IF match_token(toks, token.position, Token("Comma"))
        THEN parse_names(toks, token.position + 1, Append(names, token.r.x.s))
        ELSE Parsed(Present(Append(names, token.r.x.s)), token.position))

\* Parser::parse_parameters
parse_parameters(toks, position) ==
    IF check(toks, position, Token("RightParen"))
    THEN Parsed(Present(<<>>), position)
    ELSE parse_names(toks, position, <<>>)

\* Parser::parse_function and the function branch of parse_local, from the
\* name on; kind is "Function" or "LocalFunction"
parse_function_as(toks, position, kind) ==
    Try(advance(toks, position), LAMBDA name :
        IF name.r.x.tok # "Identifier" THEN Parsed(Absent, name.position)
        ELSE
        Try(parse_parameters(toks, consume(toks, name.position, Token("LeftParen"))),
            LAMBDA parameters :
        Try(parse_block(toks, consume(toks, parameters.position, Token("RightParen"))),
            LAMBDA body :
            Parsed(Present([k |-> kind, name |-> name.r.x.s,
                            parameters |-> parameters.r.x, body |-> body.r.x]),
                   consume(toks, body.position, Token("End"))))))

\* Parser::parse_function
parse_function(toks, position) == parse_function_as(toks, position, "Function")

\* Parser::parse_local
parse_local(toks, position) ==
    IF match_token(toks, position, Token("Function"))
    THEN parse_function_as(toks, position + 1, "LocalFunction")
    ELSE Try(parse_names(toks, position, <<>>), LAMBDA variables :
             IF match_token(toks, variables.position, Token("Assign"))
             THEN Try(parse_values(toks, variables.position + 1, <<>>), LAMBDA values :
                      Parsed(Present(StmtLocalAssignment(variables.r.x, values.r.x)),
                             values.position))
             ELSE Parsed(Present(StmtLocalAssignment(variables.r.x, <<>>)),
                         variables.position))

\* statements.push(stmt) if the statement is there
Pushed(statements, stmt) ==
    IF stmt.r.some THEN Append(statements, stmt.r.x) ELSE statements

\* Parser::parse_block: the while loop, with the statements so far and, once
\* one more is parsed, with what parse_statement returned.  It stops at end,
\* at until and at the end of the tokens.
RECURSIVE parse_block_loop(_, _, _)
parse_block_next(toks, statements, stmt) ==
    parse_block_loop(toks, stmt.position, Pushed(statements, stmt))

parse_block_loop(toks, position, statements) ==
    IF \/ check(toks, position, Token("End"))
       \/ check(toks, position, Token("Until"))
       \/ is_at_end(toks, position)
    THEN Parsed(Present(statements), position)
    ELSE parse_block_next(toks, statements, parse_statement(toks, position))

\* Parser::parse_block
parse_block(toks, position) == parse_block_loop(toks, position, <<>>)

\* Parser::parse_if: the while loop over elseif, with the pairs so far
RECURSIVE parse_else_ifs(_, _, _)
parse_else_ifs(toks, position, else_if_blocks) ==
    IF ~match_token(toks, position, Token("ElseIf"))
    THEN Parsed(Present(else_if_blocks), position)
    ELSE Try(parse_expression(toks, position + 1), LAMBDA condition :
         Try(parse_block(toks, consume(toks, condition.position, Token("Then"))),
             LAMBDA block :
             parse_else_ifs(toks, block.position,
                            Append(else_if_blocks, <<condition.r.x, block.r.x>>))))

\* Parser::parse_if
parse_if(toks, position) ==
    Try(parse_expression(toks, position), LAMBDA condition :
    Try(parse_block(toks, consume(toks, condition.position, Token("Then"))),
        LAMBDA then_block :
    Try(parse_else_ifs(toks, then_block.position, <<>>), LAMBDA else_if_blocks :
        IF match_token(toks, else_if_blocks.position, Token("Else"))
        THEN Try(parse_block(toks, else_if_blocks.position + 1), LAMBDA else_block :
                 Parsed(Present(StmtIf(condition.r.x, then_block.r.x,
                                       else_if_blocks.r.x, Present(else_block.r.x))),
                        consume(toks, else_block.position, Token("End"))))
        ELSE Parsed(Present(StmtIf(condition.r.x, then_block.r.x,
                                   else_if_blocks.r.x, Absent)),
                    consume(toks, else_if_blocks.position, Token("End"))))))

\* Parser::parse_while
parse_while(toks, position) ==
    Try(parse_expression(toks, position), LAMBDA condition :
    Try(parse_block(toks, consume(toks, condition.position, Token("Do"))),
        LAMBDA body :
        Parsed(Present(StmtWhile(condition.r.x, body.r.x)),
               consume(toks, body.position, Token("End")))))

\* Parser::parse_repeat
parse_repeat(toks, position) ==
    Try(parse_block(toks, position), LAMBDA body :
    Try(parse_expression(toks, consume(toks, body.position, Token("Until"))),
        LAMBDA condition :
        Parsed(Present(StmtRepeat(body.r.x, condition.r.x)), condition.position)))

\* Parser::parse_for, from the step on
parse_for_body(toks, position, variable, start, end, step) ==
    Try(parse_block(toks, consume(toks, position, Token("Do"))), LAMBDA body :
        Parsed(Present(StmtFor(variable, start, end, step, body.r.x)),
               consume(toks, body.position, Token("End"))))

\* Parser::parse_for
parse_for(toks, position) ==
    Try(advance(toks, position), LAMBDA variable :
        IF variable.r.x.tok # "Identifier" THEN Parsed(Absent, variable.position)
        ELSE
        Try(parse_expression(toks, consume(toks, variable.position, Token("Assign"))),
            LAMBDA start :
        Try(parse_expression(toks, consume(toks, start.position, Token("Comma"))),
            LAMBDA end :
            IF match_token(toks, end.position, Token("Comma"))
            THEN Try(parse_expression(toks, end.position + 1), LAMBDA step :
                     parse_for_body(toks, step.position, variable.r.x.s,
                                    start.r.x, end.r.x, Present(step.r.x)))
            ELSE parse_for_body(toks, end.position, variable.r.x.s,
                                start.r.x, end.r.x, Absent))))

\* Parser::parse_return
parse_return(toks, position) ==
    IF check(toks, position, Token("End"))
    THEN Parsed(Present(StmtReturn(Absent)), position)
    ELSE Try(parse_values(toks, position, <<>>), LAMBDA values :
             Parsed(Present(StmtReturn(Present(values.r.x))), values.position))

\* Parser::parse_statement
parse_statement(toks, position) ==
    IF match_token(toks, position, Token("If")) THEN parse_if(toks, position + 1)
    ELSE IF match_token(toks, position, Token("While"))
    THEN parse_while(toks, position + 1)
    ELSE IF match_token(toks, position, Token("Repeat"))
    THEN parse_repeat(toks, position + 1)
    ELSE IF match_token(toks, position, Token("For"))
    THEN parse_for(toks, position + 1)
    ELSE IF match_token(toks, position, Token("Function"))
    THEN parse_function(toks, position + 1)
    ELSE IF match_token(toks, position, Token("Local"))
    THEN parse_local(toks, position + 1)
    ELSE IF match_token(toks, position, Token("Return"))
    THEN parse_return(toks, position + 1)
    ELSE IF match_token(toks, position, Token("Break"))
    THEN Parsed(Present(StmtBreak), advance(toks, position + 1).position)
    ELSE Try(parse_expression(toks, position), LAMBDA expr :
             IF match_token(toks, expr.position, Token("Assign"))
             THEN parse_assignment(toks, expr.position + 1, expr.r.x)
             ELSE Parsed(Present(StmtExpr(expr.r.x)), expr.position))

\* Parser::parse: the while loop, with the statements so far and, once one
\* more is parsed, with what parse_statement returned
RECURSIVE parse_loop(_, _, _)
parse_next(toks, statements, stmt) ==
    parse_loop(toks, stmt.position, Pushed(statements, stmt))

parse_loop(toks, position, statements) ==
    IF is_at_end(toks, position) THEN statements
    ELSE parse_next(toks, statements, parse_statement(toks, position))

\* Parser::new(tokens).parse()
parse(toks) == parse_loop(toks, 0, <<>>)

(***************************************************************************)
(* vm.rs: the evaluator.                                                   *)
(***************************************************************************)
\* Vm::setup_builtins
setup_builtins ==
    Insert(Insert(Insert(Insert(EmptyMap,
        "print", Native("print")),
        "type", Native("type_of")),
        "tonumber", Native("to_number")),
        "tostring", Native("to_string"))

\* Vm::get_variable: the frames innermost first, then the globals, then Nil.
RECURSIVE lookup_frames(_, _, _)
lookup_frames(frames, i, name) ==
    IF i = 0 THEN None
    ELSE IF name \in DOMAIN frames[i] THEN Some(frames[i][name])
    ELSE lookup_frames(frames, i - 1, name)

\* Vm::get_variable looking at the callee's own frame only before the globals.
get_variable_own_frame(name) ==
    IF call_stack # <<>> /\ name \in DOMAIN call_stack[Len(call_stack)]
    THEN call_stack[Len(call_stack)][name]
    ELSE IF name \in DOMAIN globals THEN globals[name]
    ELSE Nil

get_variable(name) ==
    LET found == lookup_frames(call_stack, Len(call_stack), name)
    IN IF found.some THEN found.n
       ELSE IF name \in DOMAIN globals THEN globals[name]
       ELSE Nil

\* for (i, var) in variables.iter().enumerate() { map.insert(var, values.get(i)
\* or Nil) }: the loop of execute_assignment, execute_local_assignment and
\* execute_user_function.
\* The binding loop stopping at the last value instead of padding with Nil.
RECURSIVE insert_given(_, _, _, _)
insert_given(map, variables, values, i) ==
    IF i > Len(variables) \/ i > Len(values) THEN map
    ELSE insert_given(Insert(map, variables[i], values[i]), variables, values, i + 1)

RECURSIVE insert_all(_, _, _, _)
insert_all(map, variables, values, i) ==
    IF i > Len(variables) THEN map
    ELSE insert_all(Insert(map, variables[i],
                           IF i <= Len(values) THEN values[i] ELSE Nil),
                    variables, values, i + 1)

\* The natives.  The line print writes to the standard output is not part of
\* the evaluator's state.
print(args) == Nil

type_of(args) ==
    IF Len(args) # 1 THEN Nil
    ELSE String(CASE args[1].t = "Nil" -> "nil"
                  [] args[1].t = "Boolean" -> "boolean"
                  [] args[1].t = "Number" -> "number"
                  [] args[1].t = "String" -> "string"
                  [] args[1].t = "Table" -> "table"
                  [] args[1].t = "Function" -> "function")

vm_to_number(args) ==
    IF args = <<>> THEN Nil
    ELSE IF to_number(args[1]).some THEN NumberF64(to_number(args[1]).n) ELSE Nil

vm_to_string(args) ==
    IF args = <<>> THEN String("") ELSE String(to_string(args[1]))

native_func(name, args) ==
    CASE name = "print" -> print(args)
      [] name = "type_of" -> type_of(args)
      [] name = "to_number" -> vm_to_number(args)
      [] OTHER -> vm_to_string(args)

\* The activations.
Top == kont[Len(kont)]
Rest == SubSeq(kont, 1, Len(kont) - 1)
Running(fn) == status = "running" /\ kont # <<>> /\ Top.fn = fn

FExecuteStmt(stmt) == [fn |-> "execute_stmt", stmt |-> stmt]
FExecuteBlock(block) ==
    [fn |-> "execute_block", stmts |-> block, i |-> 0]
FEvaluateExpr(expr) == [fn |-> "evaluate_expr", expr |-> expr]

\* The topmost activation becomes f and calls g.
Call(f, g) == kont' = Append(Append(Rest, f), g)
\* The topmost activation ends by calling f: f's value is its value.
TailCall(f) == kont' = Append(Rest, f)
\* The topmost activation returns v to its caller.
Return(v) == kont' = Rest /\ ret' = v
\* The process aborts.
Abort(how) == status' = how /\ UNCHANGED <<kont, ret>>

repl == <<source, tokens, stmts, result, execs>>

\* Vm::new
Init ==
    /\ source = <<>>
    /\ tokens = <<>>
    /\ allocated = 0
    /\ globals = setup_builtins
    /\ call_stack = <<>>
    /\ kont = <<>>
    /\ ret = Nil
    /\ status = "idle"
    /\ stmts = <<>>
    /\ result = Nil
    /\ execs = 0

\* Vm::execute and Vm::execute_block: for stmt in stmts { result =
\* self.execute_stmt(stmt) }.  i statements have been started; past the first,
\* ret is the value of the i-th.  (The continue of Vm::execute ends an
\* iteration that has nothing left to do.)
BlockResult == IF Top.i = 0 THEN Nil ELSE ret

Execute ==
    /\ Running("execute")
    /\ IF Top.i < Len(Top.stmts)
       THEN /\ Call([Top EXCEPT !.i = @ + 1], FExecuteStmt(Top.stmts[Top.i + 1]))
            /\ UNCHANGED <<ret, status, result>>
       ELSE /\ kont' = <<>>
            /\ ret' = BlockResult
            /\ result' = BlockResult
            /\ status' = "idle"
    /\ UNCHANGED <<source, tokens, allocated, globals, call_stack, stmts, execs>>

\* Vm::execute_block leaving its loop with the value of a return statement.
ExecuteBlock_ReturnStops ==
    /\ Running("execute_block")
    /\ IF /\ Top.i < Len(Top.stmts)
          /\ ~(Top.i > 0 /\ Top.stmts[Top.i].k = "Return")
       THEN /\ Call([Top EXCEPT !.i = @ + 1], FExecuteStmt(Top.stmts[Top.i + 1]))
            /\ UNCHANGED ret
       ELSE Return(BlockResult)
    /\ UNCHANGED <<globals, call_stack, status, repl, allocated>>

ExecuteBlock ==
    /\ Running("execute_block")
    /\ IF Top.i < Len(Top.stmts)
       THEN /\ Call([Top EXCEPT !.i = @ + 1], FExecuteStmt(Top.stmts[Top.i + 1]))
            /\ UNCHANGED ret
       ELSE Return(BlockResult)
    /\ UNCHANGED <<globals, call_stack, status, repl, allocated>>

\* Stmt::Break leaving the innermost loop that is running, as a break that
\* works would.
ExecuteBreak_LeavesLoop ==
    LET loops == {i \in 1..Len(kont) :
                     kont[i].fn \in {"execute_while", "execute_repeat", "execute_for"}}
    IN /\ IF loops = {}
          THEN Return(Nil)
          ELSE /\ kont' = SubSeq(kont, 1, (CHOOSE i \in loops : \A j \in loops : j <= i) - 1)
               /\ ret' = Nil
       /\ UNCHANGED <<globals, call_stack, status, repl, allocated>>

\* Stmt::Break => Value::Nil
ExecuteBreak ==
    /\ Return(Nil)
    /\ UNCHANGED <<globals, call_stack, status, repl, allocated>>

\* Vm::execute_stmt: the match on the statement.
ExecuteStmt ==
    /\ Running("execute_stmt")
    /\ LET stmt == Top.stmt IN
       CASE stmt.k = "Break" -> ExecuteBreak
         [] stmt.k = "Expr" ->
              /\ TailCall(FEvaluateExpr(stmt.expr))
              /\ UNCHANGED <<globals, call_stack, ret, status, repl, allocated>>
         [] stmt.k = "Assignment" ->
              /\ TailCall([fn |-> "execute_assignment", variables |-> stmt.variables,
                           values |-> stmt.values, evaluated_values |-> <<>>, i |-> 0])
              /\ UNCHANGED <<globals, call_stack, ret, status, repl, allocated>>
         [] stmt.k = "LocalAssignment" ->
              /\ TailCall([fn |-> "execute_local_assignment",
                           variables |-> stmt.variables, values |-> stmt.values,
                           evaluated_values |-> <<>>, i |-> 0])
              /\ UNCHANGED <<globals, call_stack, ret, status, repl, allocated>>
         [] stmt.k = "If" ->
              /\ TailCall([fn |-> "execute_if", condition |-> stmt.condition,
                           then_block |-> stmt.then_block,
                           else_if_blocks |-> stmt.else_if_blocks,
                           else_block |-> stmt.else_block, i |-> 0])
              /\ UNCHANGED <<globals, call_stack, ret, status, repl, allocated>>
         [] stmt.k = "While" ->
              /\ TailCall([fn |-> "execute_while", condition |-> stmt.condition,
                           body |-> stmt.body, pc |-> "loop"])
              /\ UNCHANGED <<globals, call_stack, ret, status, repl, allocated>>
         [] stmt.k = "Repeat" ->
              /\ TailCall([fn |-> "execute_repeat", condition |-> stmt.condition,
                           body |-> stmt.body, pc |-> "loop"])
              /\ UNCHANGED <<globals, call_stack, ret, status, repl, allocated>>
         [] stmt.k = "For" ->
              /\ TailCall([fn |-> "execute_for", variable |-> stmt.variable,
                           start |-> stmt.start, end |-> stmt.end, step |-> stmt.step,
                           body |-> stmt.body, pc |-> "start", start_val |-> F64(0, 1),
                           end_val |-> F64(0, 1), step_val |-> F64(0, 1),
                           current |-> F64(0, 1)])
              /\ UNCHANGED <<globals, call_stack, ret, status, repl, allocated>>
         [] stmt.k = "Function" ->
              /\ TailCall([fn |-> "execute_function", name |-> stmt.name,
                           parameters |-> stmt.parameters, body |-> stmt.body])
              /\ UNCHANGED <<globals, call_stack, ret, status, repl, allocated>>
         [] stmt.k = "LocalFunction" ->
              /\ TailCall([fn |-> "execute_local_function", name |-> stmt.name,
                           parameters |-> stmt.parameters, body |-> stmt.body])
              /\ UNCHANGED <<globals, call_stack, ret, status, repl, allocated>>
         [] stmt.k = "Return" ->
              /\ TailCall([fn |-> "execute_return", values |-> stmt.values])
              /\ UNCHANGED <<globals, call_stack, ret, status, repl, allocated>>

\* The first step of a method that evaluates a list of expressions in order:
\* i of them have been started, and past the first ret is the i-th's value.
Evaluated == IF Top.i = 0 THEN Top.evaluated_values
             ELSE Append(Top.evaluated_values, ret)

EvaluateNext ==
    Call([Top EXCEPT !.i = @ + 1, !.evaluated_values = Evaluated],
         FEvaluateExpr(Top.values[Top.i + 1]))

\* Vm::execute_assignment writing a name that the innermost frame binds into
\* that frame, as an assignment to a local in scope would.
ExecuteAssignment_ToLocal ==
    /\ Running("execute_assignment")
    /\ IF Top.i < Len(Top.values)
       THEN EvaluateNext /\ UNCHANGED <<globals, call_stack, ret>>
       ELSE IF call_stack # <<>> /\ Top.variables[1] \in DOMAIN call_stack[Len(call_stack)]
       THEN /\ call_stack' = [call_stack EXCEPT ![Len(call_stack)] =
                                 insert_all(@, Top.variables, Evaluated, 1)]
            /\ Return(Nil)
            /\ UNCHANGED globals
       ELSE /\ globals' = insert_all(globals, Top.variables, Evaluated, 1)
            /\ Return(Nil)
            /\ UNCHANGED call_stack
    /\ UNCHANGED <<status, repl, allocated>>

\* Vm::execute_assignment
ExecuteAssignment ==
    /\ Running("execute_assignment")
    /\ IF Top.i < Len(Top.values)
       THEN EvaluateNext /\ UNCHANGED <<globals, ret>>
       ELSE /\ globals' = insert_all(globals, Top.variables, Evaluated, 1)
            /\ Return(Nil)
    /\ UNCHANGED <<call_stack, status, repl, allocated>>

\* call_stack.last_mut().unwrap_or_else(|| panic!(..)).locals.insert(..)
InnermostFrame == call_stack[Len(call_stack)]
SetInnermostFrame(locals) == call_stack' = [call_stack EXCEPT ![Len(call_stack)] = locals]

\* Vm::execute_local_assignment falling back to the global table when no
\* frame is open.
ExecuteLocalAssignment_Global ==
    /\ Running("execute_local_assignment")
    /\ IF Top.i < Len(Top.values)
       THEN EvaluateNext /\ UNCHANGED <<globals, call_stack, ret>>
       ELSE IF call_stack = <<>>
       THEN /\ globals' = insert_all(globals, Top.variables, Evaluated, 1)
            /\ Return(Nil)
            /\ UNCHANGED call_stack
       ELSE /\ SetInnermostFrame(insert_all(InnermostFrame, Top.variables, Evaluated, 1))
            /\ Return(Nil)
            /\ UNCHANGED globals
    /\ UNCHANGED <<status, repl, allocated>>

\* Vm::execute_local_assignment
ExecuteLocalAssignment ==
    /\ Running("execute_local_assignment")
    /\ IF Top.i < Len(Top.values)
       THEN EvaluateNext /\ UNCHANGED <<call_stack, ret, status>>
       ELSE IF call_stack = <<>>
       THEN Abort("panicked") /\ UNCHANGED call_stack
       ELSE /\ SetInnermostFrame(insert_all(InnermostFrame, Top.variables, Evaluated, 1))
            /\ Return(Nil)
            /\ UNCHANGED status
    /\ UNCHANGED <<globals, repl, allocated>>

\* Vm::execute_if.  i conditions have been evaluated: the statement's own,
\* then those of else_if_blocks; ret is the value of the i-th.
ExecuteIf ==
    /\ Running("execute_if")
    /\ IF Top.i = 0
       THEN /\ Call([Top EXCEPT !.i = 1], FEvaluateExpr(Top.condition))
            /\ UNCHANGED ret
       ELSE IF is_truthy(ret)
       THEN /\ TailCall(FExecuteBlock(IF Top.i = 1 THEN Top.then_block
                                      ELSE Top.else_if_blocks[Top.i - 1][2]))
            /\ UNCHANGED ret
       ELSE IF Top.i - 1 < Len(Top.else_if_blocks)
       THEN /\ Call([Top EXCEPT !.i = @ + 1], FEvaluateExpr(Top.else_if_blocks[Top.i][1]))
            /\ UNCHANGED ret
       ELSE IF Top.else_block.some
       THEN /\ TailCall(FExecuteBlock(Top.else_block.x))
            /\ UNCHANGED ret
       ELSE Return(Nil)
    /\ UNCHANGED <<globals, call_stack, status, repl, allocated>>

\* Vm::execute_while
ExecuteWhile ==
    /\ Running("execute_while")
    /\ IF Top.pc = "loop"
       THEN /\ Call([Top EXCEPT !.pc = "test"], FEvaluateExpr(Top.condition))
            /\ UNCHANGED ret
       ELSE IF ~is_truthy(ret)
       THEN Return(Nil)
       ELSE /\ Call([Top EXCEPT !.pc = "loop"], FExecuteBlock(Top.body))
            /\ UNCHANGED ret
    /\ UNCHANGED <<globals, call_stack, status, repl, allocated>>

\* Vm::execute_repeat
ExecuteRepeat ==
    /\ Running("execute_repeat")
    /\ IF Top.pc = "loop"
       THEN /\ Call([Top EXCEPT !.pc = "cond"], FExecuteBlock(Top.body))
            /\ UNCHANGED ret
       ELSE IF Top.pc = "cond"
       THEN /\ Call([Top EXCEPT !.pc = "test"], FEvaluateExpr(Top.condition))
            /\ UNCHANGED ret
       ELSE IF is_truthy(ret)
       THEN Return(Nil)
       ELSE /\ Call([Top EXCEPT !.pc = "cond"], FExecuteBlock(Top.body))
            /\ UNCHANGED ret
    /\ UNCHANGED <<globals, call_stack, status, repl, allocated>>

\* to_number().unwrap_or(d)
unwrap_or(v, d) == IF to_number(v).some THEN to_number(v).n ELSE F64(d, 1)

\* One turn of the while loop of Vm::execute_for, f being the activation: the
\* test, the binding of the induction variable, the body.
ForIterate(f) ==
    IF \/ f64_lt(F64(0, 1), f.step_val) /\ f64_le(f.current, f.end_val)
       \/ f64_lt(f.step_val, F64(0, 1)) /\ f64_le(f.end_val, f.current)
    THEN IF call_stack = <<>>
         THEN Abort("panicked") /\ UNCHANGED call_stack
         ELSE /\ SetInnermostFrame(Insert(InnermostFrame, f.variable, NumberF64(f.current)))
              /\ Call([f EXCEPT !.pc = "body"], FExecuteBlock(f.body))
              /\ UNCHANGED <<ret, status>>
    ELSE Return(Nil) /\ UNCHANGED <<call_stack, status>>

\* Vm::execute_for evaluating the end bound again after each run of the body.
ExecuteFor_EndEachTime ==
    /\ Running("execute_for")
    /\ CASE Top.pc = "start" ->
              /\ Call([Top EXCEPT !.pc = "end"], FEvaluateExpr(Top.start))
              /\ UNCHANGED <<call_stack, ret, status>>
         [] Top.pc = "end" ->
              /\ Call([Top EXCEPT !.pc = "step", !.start_val = unwrap_or(ret, 0)],
                      FEvaluateExpr(Top.end))
              /\ UNCHANGED <<call_stack, ret, status>>
         [] Top.pc = "step" /\ Top.step.some ->
              /\ Call([Top EXCEPT !.pc = "init", !.end_val = unwrap_or(ret, 0)],
                      FEvaluateExpr(Top.step.x))
              /\ UNCHANGED <<call_stack, ret, status>>
         [] Top.pc = "step" /\ ~Top.step.some ->
              ForIterate([Top EXCEPT !.end_val = unwrap_or(ret, 0), !.step_val = F64(1, 1),
                                     !.current = Top.start_val])
         [] Top.pc = "init" ->
              ForIterate([Top EXCEPT !.step_val = unwrap_or(ret, 1),
                                     !.current = Top.start_val])
         [] Top.pc = "body" ->
              /\ Call([Top EXCEPT !.pc = "again", !.current = f64_add(@, Top.step_val)],
                      FEvaluateExpr(Top.end))
              /\ UNCHANGED <<call_stack, ret, status>>
         [] Top.pc = "again" ->
              ForIterate([Top EXCEPT !.end_val = unwrap_or(ret, 0)])
    /\ UNCHANGED <<globals, repl, allocated>>

\* Vm::execute_for
ExecuteFor ==
    /\ Running("execute_for")
    /\ CASE Top.pc = "start" ->
              /\ Call([Top EXCEPT !.pc = "end"], FEvaluateExpr(Top.start))
              /\ UNCHANGED <<call_stack, ret, status>>
         [] Top.pc = "end" ->
              /\ Call([Top EXCEPT !.pc = "step", !.start_val = unwrap_or(ret, 0)],
                      FEvaluateExpr(Top.end))
              /\ UNCHANGED <<call_stack, ret, status>>
         [] Top.pc = "step" /\ Top.step.some ->
              /\ Call([Top EXCEPT !.pc = "init", !.end_val = unwrap_or(ret, 0)],
                      FEvaluateExpr(Top.step.x))
              /\ UNCHANGED <<call_stack, ret, status>>
         [] Top.pc = "step" /\ ~Top.step.some ->
              ForIterate([Top EXCEPT !.end_val = unwrap_or(ret, 0), !.step_val = F64(1, 1),
                                     !.current = Top.start_val])
         [] Top.pc = "init" ->
              ForIterate([Top EXCEPT !.step_val = unwrap_or(ret, 1),
                                     !.current = Top.start_val])
         [] Top.pc = "body" ->
              ForIterate([Top EXCEPT !.current = f64_add(@, Top.step_val)])
    /\ UNCHANGED <<globals, repl, allocated>>

\* Vm::execute_function
ExecuteFunction ==
    /\ Running("execute_function")
    /\ globals' = Insert(globals, Top.name, UserDefined(Top.parameters, Top.body))
    /\ Return(Nil)
    /\ UNCHANGED <<call_stack, status, repl, allocated>>

\* Vm::execute_local_function
ExecuteLocalFunction ==
    /\ Running("execute_local_function")
    /\ IF call_stack = <<>>
       THEN Abort("panicked") /\ UNCHANGED call_stack
       ELSE /\ SetInnermostFrame(Insert(InnermostFrame, Top.name,
                                        UserDefined(Top.parameters, Top.body)))
            /\ Return(Nil)
            /\ UNCHANGED status
    /\ UNCHANGED <<globals, repl, allocated>>

\* Vm::execute_return
ExecuteReturn ==
    /\ Running("execute_return")
    /\ IF Top.values.some /\ Len(Top.values.x) = 1
       THEN TailCall(FEvaluateExpr(Top.values.x[1])) /\ UNCHANGED ret
       ELSE Return(Nil)
    /\ UNCHANGED <<globals, call_stack, status, repl, allocated>>

\* Vm::evaluate_expr: the match on the expression.
EvaluateExpr ==
    /\ Running("evaluate_expr")
    /\ LET expr == Top.expr IN
       CASE expr.k = "Number" -> Return(NumberF64(expr))
         [] expr.k = "String" -> Return(String(expr.s))
         [] expr.k = "Boolean" -> Return(Boolean(expr.b))
         [] expr.k = "Nil" -> Return(Nil)
         [] expr.k = "Identifier" -> Return(get_variable(expr.name))
         [] expr.k = "UnaryOp" ->
              /\ TailCall([fn |-> "evaluate_unary_op", operator |-> expr.operator,
                           operand |-> expr.operand, pc |-> "operand"])
              /\ UNCHANGED ret
         [] expr.k = "BinaryOp" ->
              /\ TailCall([fn |-> "evaluate_binary_op", left |-> expr.left,
                           operator |-> expr.operator, right |-> expr.right,
                           pc |-> "left", left_val |-> Nil])
              /\ UNCHANGED ret
         [] expr.k = "FunctionCall" ->
              /\ TailCall([fn |-> "evaluate_function_call", name |-> expr.name,
                           arguments |-> expr.arguments, func |-> Nil,
                           evaluated_args |-> <<>>, i |-> 0])
              /\ UNCHANGED ret
         [] expr.k = "TableAccess" ->
              /\ TailCall([fn |-> "evaluate_table_access", table |-> expr.table,
                           key |-> expr.key, pc |-> "table", table_val |-> Nil])
              /\ UNCHANGED ret
         [] expr.k = "TableConstructor" ->
              /\ TailCall([fn |-> "evaluate_table_constructor", fields |-> expr.fields,
                           pc |-> "new", ptr |-> 0, entries |-> EmptyMap, i |-> 0])
              /\ UNCHANGED ret
    /\ UNCHANGED <<globals, call_stack, status, repl, allocated>>

\* Value::length
length(v) ==
    CASE v.t = "String" -> Number(Len(v.s))
      [] v.t = "Table" -> Number(Cardinality(DOMAIN v.entries))
      [] OTHER -> Nil

\* Vm::evaluate_unary_op
EvaluateUnaryOp ==
    /\ Running("evaluate_unary_op")
    /\ IF Top.pc = "operand"
       THEN /\ Call([Top EXCEPT !.pc = "apply"], FEvaluateExpr(Top.operand))
            /\ UNCHANGED ret
       ELSE Return(CASE Top.operator = "Not" -> not(ret)
                     [] Top.operator = "Minus" -> negate(ret)
                     [] Top.operator = "Length" -> length(ret))
    /\ UNCHANGED <<globals, call_stack, status, repl, allocated>>

\* Value::concat
concat(a, b) == String(to_string(a) \o to_string(b))

\* The match of Vm::evaluate_binary_op on the operator.
binary_op(operator, left_val, right_val) ==
    CASE operator = "Add" -> add(left_val, right_val)
      [] operator = "Subtract" -> subtract(left_val, right_val)
      [] operator = "Multiply" -> multiply(left_val, right_val)
      [] operator = "Divide" -> divide(left_val, right_val)
      [] operator = "Modulo" -> modulo(left_val, right_val)
      [] operator = "Power" -> power(left_val, right_val)
      [] operator = "Concat" -> concat(left_val, right_val)
      [] operator = "Equal" -> equal(left_val, right_val)
      [] operator = "NotEqual" -> not_equal(left_val, right_val)
      [] operator = "LessThan" -> less_than(left_val, right_val)
      [] operator = "LessEqual" -> less_equal(left_val, right_val)
      [] operator = "GreaterThan" -> greater_than(left_val, right_val)
      [] operator = "GreaterEqual" -> greater_equal(left_val, right_val)
      [] operator = "And" -> Boolean(is_truthy(left_val) /\ is_truthy(right_val))
      [] operator = "Or" -> Boolean(is_truthy(left_val) \/ is_truthy(right_val))

\* Vm::evaluate_binary_op
EvaluateBinaryOp ==
    /\ Running("evaluate_binary_op")
    /\ CASE Top.pc = "left" ->
              /\ Call([Top EXCEPT !.pc = "right"], FEvaluateExpr(Top.left))
              /\ UNCHANGED ret
         [] Top.pc = "right" ->
              /\ Call([Top EXCEPT !.pc = "apply", !.left_val = ret],
                      FEvaluateExpr(Top.right))
              /\ UNCHANGED ret
         [] Top.pc = "apply" -> Return(binary_op(Top.operator, Top.left_val, ret))
    /\ UNCHANGED <<globals, call_stack, status, repl, allocated>>

\* Vm::evaluate_function_call treating the call of a value that is no function
\* as an error that ends the process.
EvaluateFunctionCall_Strict ==
    /\ Running("evaluate_function_call")
    /\ LET func == IF Top.i = 0 THEN get_variable(Top.name) ELSE Top.func
           evaluated_args == IF Top.i = 0 THEN Top.evaluated_args
                             ELSE Append(Top.evaluated_args, ret)
       IN IF Top.i > Len(Top.arguments)
          THEN Return(ret) /\ UNCHANGED status
          ELSE IF Top.i < Len(Top.arguments)
          THEN /\ Call([Top EXCEPT !.i = @ + 1, !.func = func,
                                   !.evaluated_args = evaluated_args],
                       FEvaluateExpr(Top.arguments[Top.i + 1]))
               /\ UNCHANGED <<ret, status>>
          ELSE IF func.t = "Function" /\ func.f = "Native"
          THEN Return(native_func(func.name, evaluated_args)) /\ UNCHANGED status
          ELSE IF func.t = "Function" /\ func.f = "UserDefined"
          THEN /\ Call([Top EXCEPT !.i = Len(Top.arguments) + 1, !.func = func,
                                   !.evaluated_args = evaluated_args],
                       [fn |-> "execute_user_function", parameters |-> func.parameters,
                        body |-> func.body, args |-> evaluated_args, pc |-> "enter"])
               /\ UNCHANGED <<ret, status>>
          ELSE Abort("panicked")
    /\ UNCHANGED <<globals, call_stack, repl, allocated>>

\* Vm::evaluate_function_call.  The callee is looked up before the first
\* argument is evaluated.  i arguments have been started; pc = "call" while the
\* user-defined callee runs.
EvaluateFunctionCall ==
    /\ Running("evaluate_function_call")
    /\ LET func == IF Top.i = 0 THEN get_variable(Top.name) ELSE Top.func
           evaluated_args == IF Top.i = 0 THEN Top.evaluated_args
                             ELSE Append(Top.evaluated_args, ret)
       IN IF Top.i > Len(Top.arguments)
          THEN Return(ret)
          ELSE IF Top.i < Len(Top.arguments)
          THEN /\ Call([Top EXCEPT !.i = @ + 1, !.func = func,
                                   !.evaluated_args = evaluated_args],
                       FEvaluateExpr(Top.arguments[Top.i + 1]))
               /\ UNCHANGED ret
          ELSE IF func.t = "Function" /\ func.f = "Native"
          THEN Return(native_func(func.name, evaluated_args))
          ELSE IF func.t = "Function" /\ func.f = "UserDefined"
          THEN /\ Call([Top EXCEPT !.i = Len(Top.arguments) + 1, !.func = func,
                                   !.evaluated_args = evaluated_args],
                       [fn |-> "execute_user_function", parameters |-> func.parameters,
                        body |-> func.body, args |-> evaluated_args, pc |-> "enter"])
               /\ UNCHANGED ret
          ELSE Return(Nil)
    /\ UNCHANGED <<globals, call_stack, status, repl, allocated>>

\* Vm::evaluate_table_access
EvaluateTableAccess ==
    /\ Running("evaluate_table_access")
    /\ CASE Top.pc = "table" ->
              /\ Call([Top EXCEPT !.pc = "key"], FEvaluateExpr(Top.table))
              /\ UNCHANGED ret
         [] Top.pc = "key" ->
              /\ Call([Top EXCEPT !.pc = "get", !.table_val = ret], FEvaluateExpr(Top.key))
              /\ UNCHANGED ret
         [] Top.pc = "get" ->
              IF Top.table_val.t = "Table" /\ table_get(Top.table_val.entries, ret).some
              THEN Return(table_get(Top.table_val.entries, ret).n)
              ELSE Return(Nil)
    /\ UNCHANGED <<globals, call_stack, status, repl, allocated>>

\* Vm::evaluate_table_constructor.  i fields have been started; past the first,
\* ret is the value of the i-th, which goes under the key the field names or,
\* for a positional field, under the length the table has by then plus one.
EvaluateTableConstructor ==
    /\ Running("evaluate_table_constructor")
    /\ LET field == Top.fields[Top.i]
           key == IF field.k = "Value"
                  THEN Number(Cardinality(DOMAIN Top.entries) + 1)
                  ELSE String(field.key)
           entries == IF Top.i = 0 THEN Top.entries
                      ELSE table_insert(Top.entries, key, ret)
       IN IF Top.pc = "new"
          THEN /\ allocated' = allocated + 1
               /\ kont' = Append(Rest, [Top EXCEPT !.pc = "fields", !.ptr = allocated + 1])
               /\ UNCHANGED ret
          ELSE /\ IF Top.i < Len(Top.fields)
                  THEN /\ Call([Top EXCEPT !.i = @ + 1, !.entries = entries],
                               FEvaluateExpr(Top.fields[Top.i + 1].expr))
                       /\ UNCHANGED ret
                  ELSE Return(Table(Top.ptr, entries))
               /\ UNCHANGED allocated
    /\ UNCHANGED <<globals, call_stack, status, repl>>

\* Vm::execute_user_function leaving the frame on the call stack when the
\* body has returned a value other than Nil (an early return that skips the pop).
ExecuteUserFunction_NoPop ==
    /\ Running("execute_user_function")
    /\ IF Top.pc = "enter"
       THEN IF Len(call_stack) >= MaxDepth
            THEN Abort("overflow") /\ UNCHANGED call_stack
            ELSE /\ call_stack' = Append(call_stack,
                                         insert_all(EmptyMap, Top.parameters, Top.args, 1))
                 /\ Call([Top EXCEPT !.pc = "body"], FExecuteBlock(Top.body))
                 /\ UNCHANGED <<ret, status>>
       ELSE /\ call_stack' = IF ret # Nil THEN call_stack
                             ELSE SubSeq(call_stack, 1, Len(call_stack) - 1)
            /\ Return(ret)
            /\ UNCHANGED status
    /\ UNCHANGED <<globals, repl, allocated>>

\* Vm::execute_user_function.  A call nested deeper than the host's stack
\* allows ends the process.
ExecuteUserFunction ==
    /\ Running("execute_user_function")
    /\ IF Top.pc = "enter"
       THEN IF Len(call_stack) >= MaxDepth
            THEN Abort("overflow") /\ UNCHANGED call_stack
            ELSE /\ call_stack' = Append(call_stack,
                                         insert_all(EmptyMap, Top.parameters, Top.args, 1))
                 /\ Call([Top EXCEPT !.pc = "body"], FExecuteBlock(Top.body))
                 /\ UNCHANGED <<ret, status>>
       ELSE /\ call_stack' = SubSeq(call_stack, 1, Len(call_stack) - 1)
            /\ Return(ret)
            /\ UNCHANGED status
    /\ UNCHANGED <<globals, repl, allocated>>

(***************************************************************************)
(* The programs the read-eval loop hands to Vm::execute.                   *)
(***************************************************************************)
Id(name) == ExprIdentifier(name)
Num(n) == ExprNumber(n)
Apply(name, arguments) == ExprFunctionCall(name, arguments)
Set(name, expr) == StmtAssignment(<<name>>, <<expr>>)
Local(name, expr) == StmtLocalAssignment(<<name>>, <<expr>>)
Ret(expr) == StmtReturn(Present(<<expr>>))

\* function f() return x end
\* function g() local x = 1; return f() end
\* function h() local x = 2; return f() end
\* function k() local x = 3; x = 7; return x end
\* a = g(); b = h(); d = k(); c = f()
ProgScope ==
    << StmtFunction("f", <<>>, <<Ret(Id("x"))>>),
       StmtFunction("g", <<>>, <<Local("x", Num(1)), Ret(Apply("f", <<>>))>>),
       StmtFunction("h", <<>>, <<Local("x", Num(2)), Ret(Apply("f", <<>>))>>),
       StmtFunction("k", <<>>, <<Local("x", Num(3)), Set("x", Num(7)), Ret(Id("x"))>>),
       Set("a", Apply("g", <<>>)),
       Set("b", Apply("h", <<>>)),
       Set("d", Apply("k", <<>>)),
       Set("c", Apply("f", <<>>)) >>

\* seen = x; print = 1
ProgRead == << Set("seen", Id("x")), Set("print", Num(1)) >>

\* function e() return 1; z = 2 end
\* y = e(); return 5; w = 3
ProgReturn ==
    << StmtFunction("e", <<>>, <<Ret(Num(1)), Set("z", Num(2))>>),
       Set("y", Apply("e", <<>>)),
       Ret(Num(5)),
       Set("w", Num(3)) >>

\* w = 3; return 5
ProgReturnLast == << Set("w", Num(3)), Ret(Num(5)) >>

\* return 1, 2
ProgReturnTwo == << StmtReturn(Present(<<Num(1), Num(2)>>)) >>

\* function m() n = 1; return 9 end
\* function two() return m(), m() end
\* v = two()
ProgReturnCalls ==
    << StmtFunction("m", <<>>, <<Set("n", Num(1)), Ret(Num(9))>>),
       StmtFunction("two", <<>>,
                    <<StmtReturn(Present(<<Apply("m", <<>>), Apply("m", <<>>)>>))>>),
       Set("v", Apply("two", <<>>)) >>

\* i = 0; while i < 2 do i = i + 1; break; n = i end
\* j = 0; while j < 2 do j = j + 1; n = j end
\* repeat i = i + 1; break until i > 3
\* repeat j = j + 1 until j > 3
ProgBreak ==
    << Set("i", Num(0)),
       StmtWhile(ExprBinaryOp(Id("i"), "LessThan", Num(2)),
                 <<Set("i", ExprBinaryOp(Id("i"), "Add", Num(1))), StmtBreak,
                   Set("n", Id("i"))>>),
       Set("j", Num(0)),
       StmtWhile(ExprBinaryOp(Id("j"), "LessThan", Num(2)),
                 <<Set("j", ExprBinaryOp(Id("j"), "Add", Num(1))), Set("n", Id("j"))>>),
       StmtRepeat(<<Set("i", ExprBinaryOp(Id("i"), "Add", Num(1))), StmtBreak>>,
                  ExprBinaryOp(Id("i"), "GreaterThan", Num(3))),
       StmtRepeat(<<Set("j", ExprBinaryOp(Id("j"), "Add", Num(1)))>>,
                  ExprBinaryOp(Id("j"), "GreaterThan", Num(3))) >>

\* function loop() for q = 1, 3 do break; i = q end; for q = 1, 3 do j = q end end
\* loop()
ProgBreakFor ==
    << StmtFunction("loop", <<>>,
          <<StmtFor("q", Num(1), Num(3), Absent, <<StmtBreak, Set("i", Id("q"))>>),
            StmtFor("q", Num(1), Num(3), Absent, <<Set("j", Id("q"))>>)>>),
       StmtExpr(Apply("loop", <<>>)) >>

\* while true do break end
ProgBreakForever == << StmtWhile(ExprBoolean(TRUE), <<StmtBreak>>) >>

\* function m() n = 1; return 9 end
\* function rd() return n end
\* function p2(p, q) r = p; s = q end
\* function p1(p, q) r1 = p; s1 = q end
\* function dup(p, p) return p end
\* p2(m(), rd()); n = nil; p1(4); p1(5, 6, m()); t = dup(1, 2)
ProgArgs ==
    << StmtFunction("m", <<>>, <<Set("n", Num(1)), Ret(Num(9))>>),
       StmtFunction("rd", <<>>, <<Ret(Id("n"))>>),
       StmtFunction("p2", <<"p", "q">>, <<Set("r", Id("p")), Set("s", Id("q"))>>),
       StmtFunction("p1", <<"p", "q">>, <<Set("r1", Id("p")), Set("s1", Id("q"))>>),
       StmtFunction("dup", <<"p", "p">>, <<Ret(Id("p"))>>),
       StmtExpr(Apply("p2", <<Apply("m", <<>>), Apply("rd", <<>>)>>)),
       Set("n", ExprNil),
       StmtExpr(Apply("p1", <<Num(4)>>)),
       StmtExpr(Apply("p1", <<Num(5), Num(6), Apply("m", <<>>)>>)),
       Set("t", Apply("dup", <<Num(1), Num(2)>>)) >>

\* function m() n = 1; return 9 end
\* function mk() function late() return 1 end end
\* y = 5; y = nofn(m()); u = 3; o = u(1); l = 6; l = late(mk())
ProgUndefined ==
    << StmtFunction("m", <<>>, <<Set("n", Num(1)), Ret(Num(9))>>),
       StmtFunction("mk", <<>>, <<StmtFunction("late", <<>>, <<Ret(Num(1))>>)>>),
       Set("y", Num(5)),
       Set("y", Apply("nofn", <<Apply("m", <<>>)>>)),
       Set("u", Num(3)),
       Set("o", Apply("u", <<Num(1)>>)),
       Set("l", Num(6)),
       Set("l", Apply("late", <<Apply("mk", <<>>)>>)) >>

\* local x = 1
ProgLocalTop == << Local("x", Num(1)) >>

\* local function lf() end
ProgLocalFunctionTop == << StmtLocalFunction("lf", <<>>, <<>>) >>

\* for q = 2, 1 do end; w = 4; for q = 1, 2 do end
ProgForTop ==
    << StmtFor("q", Num(2), Num(1), Absent, <<>>),
       Set("w", Num(4)),
       StmtFor("q", Num(1), Num(2), Absent, <<>>) >>

\* function fl() local x = 1; local function lf() return x end
\*   for q = 2, 1, -1 do w = q end; return lf() end
\* o = fl()
ProgLocals ==
    << StmtFunction("fl", <<>>,
          <<Local("x", Num(1)),
            StmtLocalFunction("lf", <<>>, <<Ret(Id("x"))>>),
            StmtFor("q", Num(2), Num(1), Present(ExprUnaryOp("Minus", Num(1))),
                    <<Set("w", Id("q"))>>),
            Ret(Apply("lf", <<>>))>>),
       Set("o", Apply("fl", <<>>)) >>

\* function down(n) if n < 1 then return 0 else return down(n - 1) end end
\* function inf() return inf() end
\* v = down(2); inf()
ProgRecurse ==
    << StmtFunction("down", <<"n">>,
          <<StmtIf(ExprBinaryOp(Id("n"), "LessThan", Num(1)),
                   <<Ret(Num(0))>>, <<>>,
                   Present(<<Ret(Apply("down", <<ExprBinaryOp(Id("n"), "Subtract", Num(1))>>))>>))>>),
       StmtFunction("inf", <<>>, <<Ret(Apply("inf", <<>>))>>),
       Set("v", Apply("down", <<Num(2)>>)),
       StmtExpr(Apply("inf", <<>>)) >>

\* if nil then a = 1 elseif x then a = 2 elseif true then a = 3 end
\* if not a then b = 1 else b = 2 end
\* if a == 4 then b = 3 end
\* t = type(a); s = tostring(2) .. "x"; u = tonumber("1") * #s; print(s, t ~= u)
ProgMisc ==
    << StmtIf(ExprNil, <<Set("a", Num(1))>>,
              << <<Id("x"), <<Set("a", Num(2))>> >>,
                 <<ExprBoolean(TRUE), <<Set("a", Num(3))>> >> >>, Absent),
       StmtIf(ExprUnaryOp("Not", Id("a")), <<Set("b", Num(1))>>, <<>>,
              Present(<<Set("b", Num(2))>>)),
       StmtIf(ExprBinaryOp(Id("a"), "Equal", Num(4)), <<Set("b", Num(3))>>, <<>>, Absent),
       Set("t", Apply("type", <<Id("a")>>)),
       Set("s", ExprBinaryOp(Apply("tostring", <<Num(2)>>), "Concat", ExprString("x"))),
       Set("u", ExprBinaryOp(Apply("tonumber", <<ExprString("1")>>), "Multiply",
                             ExprUnaryOp("Length", Id("s")))),
       StmtExpr(Apply("print", <<Id("s"), ExprBinaryOp(Id("t"), "NotEqual", Id("u"))>>)) >>

\* t = {}; u = {}; same = t == t; twin = t == u; differ = t ~= t
\* f = {print}; g = {print}; fs = f == f; fg = f == g
\* p = {10, x = 1, 20, x = 2}; n = #p; third = p[3]; px = p["x"]; none = p[2]
\* function fn() end; ff = fn == fn; pp = print == print; q = x[1]
ProgTables ==
    << Set("t", ExprTableConstructor(<<>>)),
       Set("u", ExprTableConstructor(<<>>)),
       Set("same", ExprBinaryOp(Id("t"), "Equal", Id("t"))),
       Set("twin", ExprBinaryOp(Id("t"), "Equal", Id("u"))),
       Set("differ", ExprBinaryOp(Id("t"), "NotEqual", Id("t"))),
       Set("f", ExprTableConstructor(<<TableFieldValue(Id("print"))>>)),
       Set("g", ExprTableConstructor(<<TableFieldValue(Id("print"))>>)),
       Set("fs", ExprBinaryOp(Id("f"), "Equal", Id("f"))),
       Set("fg", ExprBinaryOp(Id("f"), "Equal", Id("g"))),
       Set("p", ExprTableConstructor(<<TableFieldValue(Num(10)),
                                       TableFieldKeyValue("x", Num(1)),
                                       TableFieldValue(Num(20)),
                                       TableFieldKeyValue("x", Num(2))>>)),
       Set("n", ExprUnaryOp("Length", Id("p"))),
       Set("third", ExprTableAccess(Id("p"), Num(3))),
       Set("px", ExprTableAccess(Id("p"), ExprString("x"))),
       Set("none", ExprTableAccess(Id("p"), Num(2))),
       StmtFunction("fn", <<>>, <<>>),
       Set("ff", ExprBinaryOp(Id("fn"), "Equal", Id("fn"))),
       Set("pp", ExprBinaryOp(Id("print"), "Equal", Id("print"))),
       Set("q", ExprTableAccess(Id("x"), Num(1))) >>

Programs ==
    { ProgScope, ProgRead, ProgReturn, ProgReturnLast, ProgReturnTwo, ProgReturnCalls,
      ProgBreak, ProgBreakFor, ProgBreakForever, ProgArgs, ProgUndefined,
      ProgLocalTop, ProgLocalFunctionTop, ProgForTop, ProgLocals, ProgRecurse,
      ProgMisc, ProgTables }

\* run_repl building its evaluator inside the loop, as run_file builds one per
\* file.
RunRepl_NewVm(program) ==
    /\ status = "idle"
    /\ execs < MaxExecs
    /\ stmts' = program
    /\ execs' = execs + 1
    /\ kont' = <<[fn |-> "execute", stmts |-> program, i |-> 0]>>
    /\ status' = "running"
    /\ globals' = setup_builtins
    /\ UNCHANGED <<source, tokens, allocated, call_stack, ret, result>>

\* run_repl: one turn of the loop hands the parsed line to Vm::execute and
\* keeps what it returns.
RunRepl(program) ==
    /\ status = "idle"
    /\ execs < MaxExecs
    /\ stmts' = program
    /\ execs' = execs + 1
    /\ kont' = <<[fn |-> "execute", stmts |-> program, i |-> 0]>>
    /\ status' = "running"
    /\ UNCHANGED <<source, tokens, allocated, globals, call_stack, ret, result>>

Next ==
    \/ \E program \in Programs : RunRepl(program)
    \/ Execute
    \/ ExecuteStmt
    \/ ExecuteAssignment
    \/ ExecuteLocalAssignment
    \/ ExecuteIf
    \/ ExecuteWhile
    \/ ExecuteRepeat
    \/ ExecuteFor
    \/ ExecuteFunction
    \/ ExecuteLocalFunction
    \/ ExecuteReturn
    \/ ExecuteBlock
    \/ EvaluateExpr
    \/ EvaluateUnaryOp
    \/ EvaluateBinaryOp
    \/ EvaluateFunctionCall
    \/ ExecuteUserFunction
    \/ EvaluateTableAccess
    \/ EvaluateTableConstructor

Spec == Init /\ [][Next]_vars

(***************************************************************************)
(* run_file: one evaluator, one call of Vm::execute.                       *)
(***************************************************************************)
\* run_file from the point where it holds the statements: Vm::new() and
\* vm.execute(stmts).
RunFileParsed(program) ==
    /\ status = "idle"
    /\ execs = 0
    /\ stmts' = program
    /\ execs' = 1
    /\ kont' = <<[fn |-> "execute", stmts |-> program, i |-> 0]>>
    /\ status' = "running"
    /\ UNCHANGED <<source, tokens, allocated, globals, call_stack, ret, result>>

\* The operand expressions of the arithmetic programs: literals of every
\* type that has them, and names bound to a table, to a native function, to
\* a user-defined function and to nothing.
Operands ==
    { ExprNil, ExprBoolean(TRUE), ExprBoolean(FALSE),
      Num(0), Num(2), Num(-3), ExprNumberF64(F64(1, 2)),
      ExprString("2"), ExprString("1.5"), ExprString("inf"), ExprString("abc"),
      ExprString(""),
      Id("t"), Id("print"), Id("fn"), Id("nothing") }

ArithmeticOperators == {"Add", "Subtract", "Multiply", "Divide", "Modulo", "Power"}

\* function fn() end; t = {}; r = <left> <operator> <right>
ProgArith(operator, left, right) ==
    << StmtFunction("fn", <<>>, <<>>),
       Set("t", ExprTableConstructor(<<>>)),
       Set("r", ExprBinaryOp(left, operator, right)) >>

RunArith ==
    \E operator \in ArithmeticOperators, left \in Operands, right \in Operands :
        RunFileParsed(ProgArith(operator, left, right))

NextArith ==
    \/ RunArith
    \/ Execute
    \/ ExecuteStmt
    \/ ExecuteAssignment
    \/ ExecuteFunction
    \/ EvaluateExpr
    \/ EvaluateBinaryOp
    \/ EvaluateTableConstructor

SpecArith == Init /\ [][NextArith]_vars

(***************************************************************************)
(* The properties.                                                         *)
(***************************************************************************)
Bound(name) == name \in DOMAIN globals
Global(name) == IF Bound(name) THEN globals[name] ELSE Nil
\* Vm::execute has returned from running program.
Returned(program) == status = "idle" /\ stmts = program

\* The invocations of user-defined functions whose frame is open, among the
\* activations k.
Invocations(k) ==
    {i \in 1..Len(k) : k[i].fn = "execute_user_function" /\ k[i].pc = "body"}

\* C1: there is one call frame per active invocation of a user-defined
\* function, and none once Vm::execute has returned.
OneFramePerInvocation ==
    /\ Len(call_stack) = Cardinality(Invocations(kont))
    /\ status = "idle" => call_stack = <<>>

\* C1: the entry of a user-defined function pushes one frame on top of the
\* unchanged call stack; its exit removes the topmost frame, which leaves the
\* depth the call found; no other step adds or removes a frame or touches a
\* frame below the topmost.
FramesAreLIFO ==
    IF Running("execute_user_function") /\ Top.pc = "enter" /\ status' = "running"
    THEN /\ Len(call_stack') = Len(call_stack) + 1
         /\ SubSeq(call_stack', 1, Len(call_stack)) = call_stack
    ELSE IF Running("execute_user_function") /\ Top.pc = "body"
    THEN /\ call_stack # <<>>
         /\ call_stack' = SubSeq(call_stack, 1, Len(call_stack) - 1)
         /\ Len(call_stack') = Cardinality(Invocations(Rest))
    ELSE /\ Len(call_stack') = Len(call_stack)
         /\ \A i \in 1..Len(call_stack) - 1 : call_stack'[i] = call_stack[i]

\* C1: every user-defined function call pushes one frame on entry and pops
\* that frame when its body finishes, at any nesting depth and in LIFO order,
\* and the call stack is empty whenever Vm::execute returns normally.
C1_CallFramesPaired == []OneFramePerInvocation /\ [][FramesAreLIFO]_vars

\* C1: the calls down(2), down(1), down(0), nested three deep, have returned
\* and the call stack is empty again.
C1_Witness ==
    /\ stmts = ProgRecurse
    /\ Global("v") = Number(0)
    /\ call_stack = <<>>

\* The binding of name in the nearest frame among the first n of the call
\* stack, else in the global table, else Nil.
NearestBinding(name, n) ==
    LET binders == {i \in 1..n : name \in DOMAIN call_stack[i]}
    IN IF binders # {}
       THEN call_stack[CHOOSE i \in binders : \A j \in binders : j <= i][name]
       ELSE Global(name)

\* C2: in a callee, an identifier its own frame does not bind evaluates to the
\* binding of the nearest frame of the callers, else to the global, else to Nil.
FreeVariableFromCallers ==
    (/\ Running("evaluate_expr")
     /\ Top.expr.k = "Identifier"
     /\ call_stack # <<>>
     /\ Top.expr.name \notin DOMAIN InnermostFrame)
    => /\ kont' = Rest
       /\ ret' = NearestBinding(Top.expr.name, Len(call_stack) - 1)

\* C2: f, defined once at the top level with x free, returns 1 when g (local
\* x = 1) calls it, 2 when h (local x = 2) calls it, and the global x = 7 when
\* the top level calls it.
SameFunctionDifferentCallers ==
    Returned(ProgScope) =>
        /\ Global("a") = Number(1)
        /\ Global("b") = Number(2)
        /\ Global("c") = Number(7)

\* C2: a called function's free variables resolve against the frames live at
\* the call, innermost first, then the globals, then Nil, so one function
\* value reads different values under different callers.
C2_DynamicScope == []SameFunctionDifferentCallers /\ [][FreeVariableFromCallers]_vars

\* C2: the same f has returned 1 to g and 2 to h.
C2_Witness ==
    /\ Returned(ProgScope)
    /\ Global("a") = Number(1)
    /\ Global("b") = Number(2)
    /\ Global("f").t = "Function"

\* The step of Vm::execute_assignment that writes: every value is evaluated.
AssignmentWrites == Running("execute_assignment") /\ Top.i = Len(Top.values)

\* C3: the write of a plain assignment leaves the call stack as it is, binds
\* each target in the global table (the last of a repeated target wins), and
\* every name a frame binds still reads as it did.
AssignmentBypassesLocals ==
    AssignmentWrites =>
        /\ call_stack' = call_stack
        /\ \A j \in 1..Len(Top.variables) :
              (\A l \in (j + 1)..Len(Top.variables) : Top.variables[l] # Top.variables[j])
              => /\ Top.variables[j] \in DOMAIN globals'
                 /\ globals'[Top.variables[j]] =
                       IF j <= Len(Evaluated) THEN Evaluated[j] ELSE Nil
        /\ \A i \in 1..Len(call_stack) : \A name \in DOMAIN call_stack[i] :
              get_variable(name)' = get_variable(name)

\* C3: k runs local x = 3; x = 7; return x: the global x is 7 and k returned 3.
LocalStillRead ==
    Returned(ProgScope) => Global("x") = Number(7) /\ Global("d") = Number(3)

\* C3: a plain assignment writes the global table and no call frame, even
\* under a local of the same name, and that local is still what a read gets.
C3_AssignmentIsGlobal == []LocalStillRead /\ [][AssignmentBypassesLocals]_vars

\* C3: k has assigned x under its local x and returned the local.
C3_Witness ==
    /\ Returned(ProgScope)
    /\ Global("x") = Number(7)
    /\ Global("d") = Number(3)

\* The names of a sequence of names.
Names(variables) == {variables[j] : j \in 1..Len(variables)}

\* This step binds name in the global table: the write of a plain assignment
\* to it, or the definition of a function of that name.
ProgramBinds(name) ==
    \/ AssignmentWrites /\ name \in Names(Top.variables)
    \/ Running("execute_function") /\ Top.name = name

\* C4: no step unbinds a global, and only a program's own assignment or
\* function definition changes one; the call of Vm::execute finds the globals
\* as the last execution left them, and no frame and no activation of it.
GlobalsCarriedOver ==
    /\ \A name \in DOMAIN globals : name \in DOMAIN globals'
    /\ \A name \in DOMAIN globals' :
          (name \notin DOMAIN globals \/ globals'[name] # globals[name])
          => ProgramBinds(name)
    /\ (status = "idle" /\ status' = "running")
       => /\ globals' = globals
          /\ call_stack' = <<>>
          /\ Len(kont') = 1

\* C4: before the first execution the four builtins are bound to natives;
\* between executions no frame and no activation is left; a later execution
\* reads the global x of an earlier one, none of its locals x.
OnlyGlobalsBetweenExecutions ==
    /\ execs = 0 => \A name \in {"print", "type", "tonumber", "tostring"} :
                       Bound(name) /\ globals[name].t = "Function"
                                   /\ globals[name].f = "Native"
    /\ status = "idle" => call_stack = <<>> /\ kont = <<>>
    /\ Returned(ProgRead) => /\ Global("seen") = Global("x")
                             /\ Global("seen") \in {Nil, Number(7)}

\* C4: across the calls of Vm::execute on one evaluator the global table, and
\* nothing else, is carried over.
C4_GlobalsPersist == []OnlyGlobalsBetweenExecutions /\ [][GlobalsCarriedOver]_vars

\* C4: the second execution has read the x the first one bound and has rebound
\* print, while type is still the builtin.
C4_Witness ==
    /\ Returned(ProgRead)
    /\ execs = 2
    /\ Global("seen") = Number(7)
    /\ Global("print") = Number(1)
    /\ Global("type") = Native("type_of")

\* This step writes a local binding: the write of a local declaration, a
\* local function definition, or a turn of a numeric for that goes on.
LocalWrite ==
    /\ status = "running"
    /\ kont # <<>>
    /\ \/ Top.fn = "execute_local_assignment" /\ Top.i = Len(Top.values)
       \/ Top.fn = "execute_local_function"
       \/ /\ Top.fn = "execute_for"
          /\ Top.pc \in {"init", "body"} \/ (Top.pc = "step" /\ ~Top.step.some)
          /\ kont' # Rest

LocalWriteNames ==
    CASE Top.fn = "execute_local_assignment" -> Names(Top.variables)
      [] Top.fn = "execute_local_function" -> {Top.name}
      [] OTHER -> {Top.variable}

\* C5: a local write with no frame open aborts the process where it stands;
\* with a frame open it goes on, and changes only the innermost frame, by the
\* names written.
LocalWriteNeedsFrame ==
    LocalWrite =>
        IF call_stack = <<>>
        THEN /\ status' = "panicked"
             /\ UNCHANGED <<globals, call_stack, kont, result>>
        ELSE /\ status' = "running"
             /\ globals' = globals
             /\ Len(call_stack') = Len(call_stack)
             /\ \A i \in 1..Len(call_stack) - 1 : call_stack'[i] = call_stack[i]
             /\ DOMAIN call_stack'[Len(call_stack)] =
                   DOMAIN InnermostFrame \cup LocalWriteNames
             /\ \A name \in DOMAIN InnermostFrame \ LocalWriteNames :
                   call_stack'[Len(call_stack)][name] = InnermostFrame[name]

\* C5: a panic is final and Vm::execute never returns from it; it happens
\* only with no frame open.
PanicIsFatal ==
    status = "panicked" => kont # <<>> /\ call_stack = <<>> /\ ~ENABLED Next

\* C5: a write of a local binding with the call stack empty is a fatal panic;
\* with a frame open it never aborts and stores into the innermost frame only.
C5_LocalWriteOrPanic == []PanicIsFatal /\ [][LocalWriteNeedsFrame]_vars

\* C5: fl has written a local, a local function and a for variable in its
\* frame and returned; then local x = 1 at the top level has panicked.
C5_Witness ==
    /\ status = "panicked"
    /\ stmts = ProgLocalTop
    /\ Global("o") = Number(1)
    /\ Global("w") = Number(1)

\* C6: after a return statement that is not the last of its block, the block
\* starts the next statement.
ReturnDoesNotStop ==
    (/\ status = "running"
     /\ kont # <<>>
     /\ Top.fn \in {"execute", "execute_block"}
     /\ Top.i > 0
     /\ Top.i < Len(Top.stmts)
     /\ Top.stmts[Top.i].k = "Return")
    => kont' = Append(Append(Rest, [Top EXCEPT !.i = @ + 1]),
                      FExecuteStmt(Top.stmts[Top.i + 1]))

\* C6: a block, a user-defined function call and Vm::execute each return the
\* value of the statement executed last.
ValueOfLastStatement ==
    /\ (Running("execute_block") /\ Top.i > 0 /\ Top.i = Len(Top.stmts))
       => kont' = Rest /\ ret' = ret
    /\ (Running("execute_user_function") /\ Top.pc = "body") => ret' = ret
    /\ (Running("evaluate_function_call") /\ Top.i > Len(Top.arguments)) => ret' = ret
    /\ (Running("execute") /\ Top.i > 0 /\ Top.i = Len(Top.stmts))
       => status' = "idle" /\ result' = ret

\* C6: e runs return 1; z = 2: its call yields Nil and z is 2.  The program
\* goes on after its own return 5 to w = 3 and yields Nil; the program that
\* ends with return 5 yields 5.
StatementsAfterReturnRun ==
    /\ Returned(ProgReturn) => /\ Bound("y") /\ Global("y") = Nil
                               /\ Global("z") = Number(2)
                               /\ Global("w") = Number(3)
                               /\ result = Nil
    /\ Returned(ProgReturnLast) => result = Number(5)

\* C6: a return statement does not stop its block, and the value of a
\* user-defined function call and of Vm::execute is that of the statement
\* executed last.
C6_ReturnFallsThrough ==
    /\ []StatementsAfterReturnRun
    /\ [][ReturnDoesNotStop /\ ValueOfLastStatement]_vars

\* C6: the statements after the returns of e and of the program have run.
C6_Witness ==
    /\ Returned(ProgReturn)
    /\ Bound("y") /\ Global("y") = Nil
    /\ Global("z") = Number(2)
    /\ Global("w") = Number(3)
    /\ result = Nil

\* C7: return 1, 2 yields the value of its first expression, and return m(),
\* m() evaluates both calls (m binds the global n) and yields the first's 9.
C7_ReturnKeepsFirst ==
    /\ Returned(ProgReturnTwo) => result = Number(1)
    /\ Returned(ProgReturnCalls) => Global("v") = Number(9) /\ Global("n") = Number(1)

\* C8: the step that executes a break returns Nil to the enclosing block and
\* changes no binding, no frame and no other activation.
BreakIsInert ==
    (Running("execute_stmt") /\ Top.stmt.k = "Break")
    => /\ kont' = Rest
       /\ ret' = Nil
       /\ UNCHANGED <<globals, call_stack, status>>

\* C8: the while, repeat and for loops with a break in their body run as often
\* as their twins without it (i counts the turns of the first, j of the
\* second, n is assigned after the break), and while true do break end never
\* returns.
LoopsRunToTheirBound ==
    /\ Returned(ProgBreak) => /\ Global("i") = Number(4)
                              /\ Global("j") = Global("i")
                              /\ Global("n") = Number(2)
    /\ Returned(ProgBreakFor) => /\ Global("i") = Number(3)
                                 /\ Global("j") = Global("i")
    /\ stmts = ProgBreakForever => status = "running"

\* C8: executing a break changes neither the control flow nor a binding: a
\* loop with a break runs as many turns as without it.
C8_BreakDoesNothing == []LoopsRunToTheirBound /\ [][BreakIsInert]_vars

\* C8: the loops of ProgBreak have all run to the end of their conditions.
C8_Witness ==
    /\ Returned(ProgBreak)
    /\ Global("i") = Number(4)
    /\ Global("j") = Number(4)
    /\ Global("n") = Number(2)

\* The step of Vm::execute_user_function that opens the frame.
OpensFrame ==
    /\ Running("execute_user_function")
    /\ Top.pc = "enter"
    /\ status' = "running"

\* The value the i-th parameter is given.
Given(i) == IF i <= Len(Top.args) THEN Top.args[i] ELSE Nil

\* C9 as claimed: the new frame binds exactly p1..pk, every pi to the value
\* of ai, or to Nil past the last argument.
C9_EveryParameterItsArgument ==
    [][OpensFrame =>
          LET frame == call_stack'[Len(call_stack')]
          IN /\ DOMAIN frame = Names(Top.parameters)
             /\ \A i \in 1..Len(Top.parameters) : frame[Top.parameters[i]] = Given(i)]_vars

\* C9: when the frame is opened every argument of the call has been evaluated;
\* the frame binds exactly the parameter names, each to what its last
\* occurrence in the parameter list is given.
ParametersBound ==
    OpensFrame =>
        LET frame == call_stack'[Len(call_stack')]
            caller == kont[Len(kont) - 1]
        IN /\ caller.fn = "evaluate_function_call"
           /\ Len(Top.args) = Len(caller.arguments)
           /\ call_stack' = Append(call_stack, frame)
           /\ DOMAIN frame = Names(Top.parameters)
           /\ \A i \in 1..Len(Top.parameters) :
                 (\A j \in (i + 1)..Len(Top.parameters) :
                     Top.parameters[j] # Top.parameters[i])
                 => frame[Top.parameters[i]] = Given(i)

\* C9: p2(m(), rd()) evaluates m, which binds the global n, before rd, which
\* reads it; p1(5, 6, m()) evaluates the third argument and binds p and q
\* only; dup(p, p) called with 1, 2 reads p as 2.
ArgumentsInOrder ==
    Returned(ProgArgs) => /\ Global("r") = Number(9)
                          /\ Global("s") = Number(1)
                          /\ Global("r1") = Number(5)
                          /\ Global("s1") = Number(6)
                          /\ Global("n") = Number(1)
                          /\ Global("t") = Number(2)

\* C9, amended: the arguments are all evaluated, left to right, before the
\* frame is opened; the frame binds exactly the names p1..pk, each to the
\* argument (or Nil) of the last parameter of that name.
C9_ParametersByPosition == []ArgumentsInOrder /\ [][ParametersBound]_vars

\* C9: p1(4) runs in a frame that binds p to 4 and q to Nil.
C9_Witness ==
    /\ stmts = ProgArgs
    /\ Len(call_stack) = 1
    /\ DOMAIN call_stack[1] = {"p", "q"}
    /\ call_stack[1]["p"] = Number(4)
    /\ call_stack[1]["q"] = Nil

\* The step of Vm::evaluate_function_call that calls, every argument being
\* evaluated, and the value its callee name had when the call began.
CallsCallee == Running("evaluate_function_call") /\ Top.i = Len(Top.arguments)
Callee == IF Top.i = 0 THEN get_variable(Top.name) ELSE Top.func

\* C10: the callee is the value of the name when the evaluation of the call
\* begins; the call of a callee that is no function returns Nil to its caller
\* and leaves the process running, the call stack and the globals as they are.
CallOfNonFunction ==
    /\ (Running("evaluate_function_call") /\ Top.i = 0 /\ Top.arguments # <<>>)
       => kont'[Len(kont)].func = get_variable(Top.name)
    /\ (CallsCallee /\ Callee.t # "Function")
       => /\ kont' = Rest
          /\ ret' = Nil
          /\ UNCHANGED <<status, call_stack, globals>>

\* C10: y = nofn(m()) and o = u(1), u being 3, bind Nil, and m has run; late,
\* unbound when l = late(mk()) begins, yields Nil though mk defines it.
UndefinedCallsYieldNil ==
    /\ Returned(ProgUndefined) => /\ Bound("y") /\ Global("y") = Nil
                                  /\ Bound("o") /\ Global("o") = Nil
                                  /\ Global("n") = Number(1)
                                  /\ Global("late").t = "Function"
    /\ (Returned(ProgUndefined) /\ execs = 1) => Bound("l") /\ Global("l") = Nil

\* C10: the call of an unbound name, or of a name bound to a value that is no
\* function, yields Nil without aborting, opening a frame or changing a global.
C10_CallOfNonFunctionIsNil == []UndefinedCallsYieldNil /\ [][CallOfNonFunction]_vars

\* C10: the calls of nofn, of the number u and of late have yielded Nil.
C10_Witness ==
    /\ Returned(ProgUndefined)
    /\ Bound("y") /\ Global("y") = Nil
    /\ Bound("o") /\ Global("o") = Nil
    /\ Bound("l") /\ Global("l") = Nil
    /\ Global("n") = Number(1)

(***************************************************************************)
(* C11: arithmetic.                                                        *)
(***************************************************************************)
\* The strings among the operands that are numeric literals to Rust's f64
\* parser, which takes a decimal fraction and the word inf.
NumericStrings == {"2", "1.5", "inf"}

\* The values the claim gives a numeric coercion.
Coercible(v) ==
    \/ v.t \in {"Number", "Boolean"}
    \/ v.t = "String" /\ v.s \in NumericStrings

\* evaluate_binary_op is about to apply an arithmetic operator to left_val and
\* to the value of the right operand, ret.
AppliesArithmetic ==
    /\ Running("evaluate_binary_op")
    /\ Top.pc = "apply"
    /\ Top.operator \in ArithmeticOperators

\* C11: the step that applies an arithmetic operator returns a Number when
\* both operands have a numeric coercion and Nil when one has none, and the
\* evaluation goes on either way.
NilOrNumber ==
    AppliesArithmetic =>
        /\ status' = "running"
        /\ kont' = Rest
        /\ IF Coercible(Top.left_val) /\ Coercible(ret)
           THEN ret'.t = "Number"
           ELSE ret' = Nil

\* C11: true counts as 1 and false as 0, a numeric string as the number it
\* spells: true + "1.5" is 2.5, "2" * false is 0, "2" ^ true is 2, 2 / "1.5"
\* is 4/3, -3 % "2" is -1, false - "inf" is -inf.
CountedAsNumbers ==
    /\ Returned(ProgArith("Add", ExprBoolean(TRUE), ExprString("1.5")))
          => Global("r") = NumberF64(F64(5, 2))
    /\ Returned(ProgArith("Multiply", ExprString("2"), ExprBoolean(FALSE)))
          => Global("r") = Number(0)
    /\ Returned(ProgArith("Power", ExprString("2"), ExprBoolean(TRUE)))
          => Global("r") = Number(2)
    /\ Returned(ProgArith("Divide", Num(2), ExprString("1.5")))
          => Global("r") = NumberF64(F64(4, 3))
    /\ Returned(ProgArith("Modulo", Num(-3), ExprString("2")))
          => Global("r") = Number(-1)
    /\ Returned(ProgArith("Subtract", ExprBoolean(FALSE), ExprString("inf")))
          => Global("r") = NumberF64(f64_neg(INFINITY))

\* C11: for each arithmetic operator and all operand values the result is Nil
\* exactly when an operand has no numeric coercion (Nil, Table, Function, a
\* String that is no numeric literal) and a Number otherwise, Booleans
\* counting as 1 and 0 and numeric Strings as their parsed value; no error is
\* signalled.
C11_ArithmeticNilOrNumber == []CountedAsNumbers /\ [][NilOrNumber]_vars

\* C11: a table divided by a boolean has given Nil, and the run has ended
\* without an abort.
C11_Witness ==
    /\ Returned(ProgArith("Divide", Id("t"), ExprBoolean(TRUE)))
    /\ Bound("r") /\ Global("r") = Nil
    /\ Global("t").t = "Table"

(***************************************************************************)
(* C12: equality of tables and functions.                                  *)
(***************************************************************************)
\* evaluate_binary_op is about to apply == or ~= to two values that are each
\* a Table or a Function.
AppliesEqualityToObjects ==
    /\ Running("evaluate_binary_op")
    /\ Top.pc = "apply"
    /\ Top.operator \in {"Equal", "NotEqual"}
    /\ Top.left_val.t \in {"Table", "Function"}
    /\ ret.t \in {"Table", "Function"}

ObjectNames == {"t", "u", "a", "b", "c", "f", "g", "fn", "gn", "print", "type"}

\* function fn() end; function gn() end; t = {}; u = {}; a = {1}; b = {1};
\* c = {2, x = 1}; f = {print}; g = {print}; r = <left> == <right> (or ~=)
ProgEquality(operator, left, right) ==
    << StmtFunction("fn", <<>>, <<>>),
       StmtFunction("gn", <<>>, <<>>),
       Set("t", ExprTableConstructor(<<>>)),
       Set("u", ExprTableConstructor(<<>>)),
       Set("a", ExprTableConstructor(<<TableFieldValue(Num(1))>>)),
       Set("b", ExprTableConstructor(<<TableFieldValue(Num(1))>>)),
       Set("c", ExprTableConstructor(<<TableFieldValue(Num(2)),
                                       TableFieldKeyValue("x", Num(1))>>)),
       Set("f", ExprTableConstructor(<<TableFieldValue(Id("print"))>>)),
       Set("g", ExprTableConstructor(<<TableFieldValue(Id("print"))>>)),
       Set("r", ExprBinaryOp(Id(left), operator, Id(right))) >>

RunEquality ==
    \E operator \in {"Equal", "NotEqual"}, left \in ObjectNames, right \in ObjectNames :
        RunFileParsed(ProgEquality(operator, left, right))

NextEquality ==
    \/ RunEquality
    \/ Execute
    \/ ExecuteStmt
    \/ ExecuteAssignment
    \/ ExecuteFunction
    \/ EvaluateExpr
    \/ EvaluateBinaryOp
    \/ EvaluateTableConstructor

SpecEquality == Init /\ [][NextEquality]_vars

\* Two values are equal as the amended claim has it: a Function to nothing,
\* a Table to itself and to a table of pairwise equal keys and values, any
\* other value to the same value.
RECURSIVE SameValue(_, _)
SameValue(a, b) ==
    CASE a.t = "Function" \/ b.t = "Function" -> FALSE
      [] a.t = "Table" /\ b.t = "Table" ->
            \/ a.ptr = b.ptr
            \/ /\ Cardinality(DOMAIN a.entries) = Cardinality(DOMAIN b.entries)
               /\ \A k \in DOMAIN a.entries : \E j \in DOMAIN b.entries :
                      SameValue(k, j) /\ SameValue(a.entries[k], b.entries[j])
      [] OTHER -> a = b

RunFile(input) ==
    /\ status = "idle"
    /\ execs = 0
    /\ source' = input
    /\ tokens' = tokenize(input)
    /\ stmts' = parse(tokenize(input))
    /\ execs' = 1
    /\ kont' = <<[fn |-> "execute", stmts |-> parse(tokenize(input)), i |-> 0]>>
    /\ status' = "running"
    /\ UNCHANGED <<allocated, globals, call_stack, ret, result>>

\* run_file has run the source text to the end.
Ran(input) == source = input /\ status = "idle" /\ execs = 1

\* The binary operators of the language, as BinaryOperator names them, with
\* the text of each.
OperatorText ==
    ("Add" :> <<"+">>) @@ ("Subtract" :> <<"-">>) @@ ("Multiply" :> <<"*">>) @@
    ("Divide" :> <<"/">>) @@ ("Modulo" :> <<"%">>) @@ ("Power" :> <<"^">>) @@
    ("Concat" :> <<".", ".">>) @@ ("Equal" :> <<"=", "=">>) @@
    ("NotEqual" :> <<"~", "=">>) @@ ("LessThan" :> <<"<">>) @@
    ("LessEqual" :> <<"<", "=">>) @@ ("GreaterThan" :> <<">">>) @@
    ("GreaterEqual" :> <<">", "=">>) @@ ("And" :> <<"a", "n", "d">>) @@
    ("Or" :> <<"o", "r">>)

BinaryOperators == DOMAIN OperatorText

\* a = 1 <op1> 2 <op2> 3
ChainSource(op1, op2) ==
    <<"a", " ", "=", " ", "1", " ">> \o OperatorText[op1] \o <<" ", "2", " ">>
        \o OperatorText[op2] \o <<" ", "3">>

ChainSources == {ChainSource(op1, op2) : op1, op2 \in BinaryOperators}

\* The pieces of text the lexer makes no token of: a character it does not
\* know, a lone tilde, a number with two dots, and a string that is not
\* closed.
Unrecognized == {<<"@">>, <<"$">>, <<"~">>, <<"1", ".", "2", ".", "3">>}
Unterminated == {<<"\"", "a">>, <<"'">>}

\* x = 1 <piece> y = 2
JunkSource(piece) ==
    <<"x", " ", "=", " ", "1", " ">> \o piece \o <<" ", "y", " ", "=", " ", "2">>

JunkSources == {JunkSource(piece) : piece \in Unrecognized \cup Unterminated}

\* x = 1 y = 2
CleanSource ==
    <<"x", " ", "=", " ", "1", " ", "y", " ", "=", " ", "2">>

\* The conditions of the if sources: the text, the expression it spells and
\* whether its value is truthy (n is bound to nothing).
Conditions ==
    { [text |-> <<"1">>, expr |-> Num(1), truthy |-> TRUE],
      [text |-> <<"n">>, expr |-> Id("n"), truthy |-> FALSE],
      [text |-> <<"1", " ", "<", " ", "2">>,
       expr |-> ExprBinaryOp(Num(1), "LessThan", Num(2)), truthy |-> TRUE],
      [text |-> <<"2", " ", "<", " ", "1">>,
       expr |-> ExprBinaryOp(Num(2), "LessThan", Num(1)), truthy |-> FALSE] }

\* if <c1> then a = 1 elseif <c2> then b = 2 else c = 3 end
IfSource(c1, c2) ==
    <<"i", "f", " ">> \o c1.text
        \o
    <<" ", "t", "h", "e", "n", " ", "a", " ", "=", " ", "1", " ", "e", "l",
      "s", "e", "i", "f", " ">> \o c2.text
        \o
    <<" ", "t", "h", "e", "n", " ", "b", " ", "=", " ", "2", " ", "e", "l",
      "s", "e", " ", "c", " ", "=", " ", "3", " ", "e", "n", "d">>

IfSources == {IfSource(c1, c2) : c1, c2 \in Conditions}

\* The names of the assignment sources; the values are 1, 2, 3
Targets == <<"a", "b", "c">>

\* The first n of the texts, separated by commas
RECURSIVE CommaList(_, _)
CommaList(texts, n) ==
    IF n = 1 THEN texts[1]
    ELSE CommaList(texts, n - 1) \o <<",", " ">> \o texts[n]

\* a, b, .. = 1, 2, ..  with n names and m values
AssignSource(n, m) ==
    CommaList(<<<<"a">>, <<"b">>, <<"c">>>>, n) \o <<" ", "=", " ">>
        \o CommaList(<<<<"1">>, <<"2">>, <<"3">>>>, m)

AssignSources == {AssignSource(n, m) : n, m \in 1..Len(Targets)}

\* local t = {}; t[1] = 5; return #t
LengthSource ==
    <<"l", "o", "c", "a", "l", " ", "t", " ", "=", " ", "{", "}", ";", " ",
      "t", "[", "1", "]", " ", "=", " ", "5", ";", " ", "r", "e", "t", "u",
      "r", "n", " ", "#", "t">>

\* Statements that lack a keyword or a delimiter the grammar requires, with
\* the kind of the statement: then, do, end, until, the closing parenthesis,
\* and the = and the comma of a numeric for.
Incomplete ==
    { [kind |-> "If",
       text |->
          <<"i", "f", " ", "n", " ", "y", " ", "=", " ", "1", " ", "e", "n",
            "d">>],
      [kind |-> "While",
       text |->
          <<"w", "h", "i", "l", "e", " ", "n", " ", "y", " ", "=", " ", "1",
            " ", "e", "n", "d">>],
      [kind |-> "While",
       text |->
          <<"w", "h", "i", "l", "e", " ", "n", " ", "d", "o", " ", "y", " ",
            "=", " ", "1">>],
      [kind |-> "Repeat",
       text |->
          <<"r", "e", "p", "e", "a", "t", " ", "y", " ", "=", " ", "1", " ",
            "n">>],
      [kind |-> "Assignment",
       text |->
          <<"y", " ", "=", " ", "(", "1", " ", "+", " ", "2">>],
      [kind |-> "For",
       text |->
          <<"f", "o", "r", " ", "i", " ", "1", ",", " ", "2", " ", "d", "o",
            " ", "y", " ", "=", " ", "1", " ", "e", "n", "d">>],
      [kind |-> "For",
       text |->
          <<"f", "o", "r", " ", "i", " ", "=", " ", "1", " ", "2", " ", "d",
            "o", " ", "y", " ", "=", " ", "1", " ", "e", "n", "d">>] }

IncompleteSources == {s.text : s \in Incomplete}

\* Statements that lack nothing, and local declarations outside any function
CompleteSources ==
    { <<"i", "f", " ", "n", " ", "t", "h", "e", "n", " ", "y", " ", "=", " ",
        "1", " ", "e", "n", "d">>,
      <<"w", "h", "i", "l", "e", " ", "n", " ", "d", "o", " ", "y", " ", "=",
        " ", "1", " ", "e", "n", "d">>,
      <<"r", "e", "p", "e", "a", "t", " ", "y", " ", "=", " ", "1", " ", "u",
        "n", "t", "i", "l", " ", "1">>,
      <<"y", " ", "=", " ", "(", "1", " ", "+", " ", "2", ")">>,
      <<"f", "o", "r", " ", "i", " ", "=", " ", "1", ",", " ", "2", " ", "d",
        "o", " ", "y", " ", "=", " ", "1", " ", "e", "n", "d">>,
      <<"l", "o", "c", "a", "l", " ", "z", " ", "=", " ", "1">>,
      <<"l", "o", "c", "a", "l", " ", "f", "u", "n", "c", "t", "i", "o", "n",
        " ", "g", "(", ")", " ", "e", "n", "d">> }

\* print(1, 2)
PrintSource ==
    <<"p", "r", "i", "n", "t", "(", "1", ",", " ", "2", ")">>

\* function f() x = 1 end f()
CallSource ==
    <<"f", "u", "n", "c", "t", "i", "o", "n", " ", "f", "(", ")", " ", "x",
      " ", "=", " ", "1", " ", "e", "n", "d", " ", "f", "(", ")">>

\* f()
EmptyCallSource ==
    <<"f", "(", ")">>

\* The words of the Boolean literals, with the value each spells
BooleanWords ==
    { [text |-> <<"t", "r", "u", "e">>, b |-> TRUE],
      [text |-> <<"f", "a", "l", "s", "e">>, b |-> FALSE] }

\* x = true, x = false
BooleanSource(word) == <<"x", " ", "=", " ">> \o word.text

BooleanSources == {BooleanSource(word) : word \in BooleanWords}

\* while c do break end x = 1
BreakSource ==
    <<"w", "h", "i", "l", "e", " ", "c", " ", "d", "o", " ", "b", "r", "e", "a", "k",
      " ", "e", "n", "d", " ", "x", " ", "=", " ", "1">>

Sources ==
    ChainSources \cup JunkSources \cup {CleanSource} \cup IfSources \cup AssignSources
        \cup {LengthSource} \cup IncompleteSources \cup CompleteSources
        \cup {PrintSource, CallSource, EmptyCallSource} \cup BooleanSources
        \cup {BreakSource}

\* The parser builds no FunctionCall, TableAccess or TableConstructor, so the
\* statements of a source text call no function and make no table.
NextFile ==
    \/ \E input \in Sources : RunFile(input)
    \/ Execute
    \/ ExecuteStmt
    \/ ExecuteAssignment
    \/ ExecuteLocalAssignment
    \/ ExecuteIf
    \/ ExecuteWhile
    \/ ExecuteRepeat
    \/ ExecuteFor
    \/ ExecuteFunction
    \/ ExecuteLocalFunction
    \/ ExecuteReturn
    \/ ExecuteBlock
    \/ EvaluateExpr
    \/ EvaluateUnaryOp
    \/ EvaluateBinaryOp

SpecFile == Init /\ [][NextFile]_vars

(***************************************************************************)
(* C13: chains of binary operators.                                        *)
(***************************************************************************)
\* C13: for every two binary operators op1 and op2 of the language, the
\* source a = 1 op1 2 op2 3 parses to the one assignment of the left-nested
\* tree ((1 op1 2) op2 3) to a, and a = 1 + 2 * 3 binds a to 9.
C13_ChainsNestLeft ==
    /\ \A op1, op2 \in BinaryOperators :
          source = ChainSource(op1, op2)
          => stmts = <<Set("a", ExprBinaryOp(ExprBinaryOp(Num(1), op1, Num(2)),
                                             op2, Num(3)))>>
    /\ Ran(ChainSource("Add", "Multiply")) => Global("a") = Number(9)

(***************************************************************************)
(* C14: text the lexer makes no token of.                                  *)
(***************************************************************************)
EndsWithOneEOF(toks) ==
    /\ Len(toks) > 0
    /\ toks[Len(toks)] = EOF
    /\ \A i \in 1..(Len(toks) - 1) : toks[i] # EOF

\* C14: the tokens of every source end with exactly one EOF; a piece the
\* lexer makes no token of between x = 1 and y = 2 leaves the tokens of
\* x = 1 y = 2, and a string that is not closed after x = 1 leaves those of
\* x = 1.
C14_LexerSkipsAndGoesOn ==
    execs = 1 =>
        /\ EndsWithOneEOF(tokens)
        /\ \A piece \in Unrecognized :
              source = JunkSource(piece)
              => tokens = <<TokenIdentifier("x"), Token("Assign"), TokenNumber(F64(1, 1)),
                            TokenIdentifier("y"), Token("Assign"), TokenNumber(F64(2, 1)),
                            EOF>>
        /\ \A piece \in Unterminated :
              source = JunkSource(piece)
              => tokens = <<TokenIdentifier("x"), Token("Assign"), TokenNumber(F64(1, 1)),
                            EOF>>

(***************************************************************************)
(* C15: if, elseif, else.                                                  *)
(***************************************************************************)
\* C15: if c1 then a = 1 elseif c2 then b = 2 else c = 3 end parses to one
\* If with a = 1 as its then-block, (c2, b = 2) as its only elseif and c = 3
\* as its else-block; run with a truthy c1 it binds a alone, run with c1 and
\* c2 falsy it binds c alone.
C15_IfElseifElse ==
    \A c1, c2 \in Conditions :
        /\ source = IfSource(c1, c2)
           => stmts = <<StmtIf(c1.expr, <<Set("a", Num(1))>>,
                               <<<<c2.expr, <<Set("b", Num(2))>>>>>>,
                               Present(<<Set("c", Num(3))>>))>>
        /\ Ran(IfSource(c1, c2)) /\ c1.truthy
           => Bound("a") /\ ~Bound("b") /\ ~Bound("c")
        /\ Ran(IfSource(c1, c2)) /\ ~c1.truthy /\ ~c2.truthy
           => ~Bound("a") /\ ~Bound("b") /\ Bound("c")

(***************************************************************************)
(* C16: assignment to several names.                                       *)
(***************************************************************************)
\* C16: the assignment of m values to n names parses to one Assignment with
\* the n names and the m values; run, it binds the i-th name to the i-th
\* value, or to Nil when there are fewer values, and no other name.
C16_AssignmentToNames ==
    \A n, m \in 1..Len(Targets) :
        /\ source = AssignSource(n, m)
           => stmts = <<StmtAssignment(SubSeq(Targets, 1, n), [i \in 1..m |-> Num(i)])>>
        /\ Ran(AssignSource(n, m))
           => \A i \in 1..Len(Targets) :
                 IF i <= n
                 THEN /\ Bound(Targets[i])
                      /\ Global(Targets[i]) = IF i <= m THEN Number(i) ELSE Nil
                 ELSE ~Bound(Targets[i])

(***************************************************************************)
(* C18: the length of a table, from the source.                            *)
(***************************************************************************)
\* C18: run_file on local t = {}; t[1] = 5; return #t yields Number(1).
C18_LengthFromSource == Ran(LengthSource) => result = Number(1)

(***************************************************************************)
(* C19: required keywords and delimiters.                                  *)
(***************************************************************************)
\* C19: a statement that lacks a keyword or a delimiter the grammar requires
\* is omitted from the statements the parser returns.
C19_IncompleteOmitted ==
    \A s \in Incomplete :
        source = s.text => \A i \in 1..Len(stmts) : stmts[i].k # s.kind

(***************************************************************************)
(* C20: calls, from the source.                                            *)
(***************************************************************************)
\* C20: print(1, 2) and f() each parse to one FunctionCall with the name and
\* the arguments in order, and f() after function f() x = 1 end invokes f, so
\* that x is 1.
C20_CallsParsedAndInvoked ==
    /\ source = PrintSource => stmts = <<StmtExpr(Apply("print", <<Num(1), Num(2)>>))>>
    /\ source = EmptyCallSource => stmts = <<StmtExpr(Apply("f", <<>>))>>
    /\ source = CallSource
       => stmts = <<StmtFunction("f", <<>>, <<Set("x", Num(1))>>),
                    StmtExpr(Apply("f", <<>>))>>
    /\ Ran(CallSource) => Global("x") = Number(1)

(***************************************************************************)
(* C21: the Boolean literals, from the source.                             *)
(***************************************************************************)
\* C21: x = true and x = false each parse to the one assignment of the
\* Boolean literal to x, and running them binds the global x to that Boolean.
C21_BooleanLiterals ==
    \A word \in BooleanWords :
        /\ source = BooleanSource(word) => stmts = <<Set("x", ExprBoolean(word.b))>>
        /\ Ran(BooleanSource(word)) => Global("x") = Boolean(word.b)

(***************************************************************************)
(* C23: break, from the source.                                            *)
(***************************************************************************)
\* C23: in while c do break end x = 1 the break statement takes the break
\* token alone: the tokens are those of the text, the loop's body is [Break],
\* the end closes the loop and x = 1 is a statement of its own after it, so
\* that running the text, with c unbound, binds x to 1.
C23_BreakTakesOneToken ==
    /\ source = BreakSource
       => /\ tokens = <<Token("While"), TokenIdentifier("c"), Token("Do"),
                        Token("Break"), Token("End"), TokenIdentifier("x"),
                        Token("Assign"), TokenNumber(F64(1, 1)), EOF>>
          /\ stmts = <<StmtWhile(Id("c"), <<StmtBreak>>), Set("x", Num(1))>>
    /\ Ran(BreakSource) => Global("x") = Number(1)

(***************************************************************************)
(* C17: loops.                                                             *)
(***************************************************************************)
\* The largest end bound of the loop programs, and their steps
MaxEnd == 4
Steps == {1, 2}

\* i = i + 1; n = n - 1; count = count + 1
CountingBody ==
    << Set("i", ExprBinaryOp(Id("i"), "Add", Num(1))),
       Set("n", ExprBinaryOp(Id("n"), "Subtract", Num(1))),
       Set("count", ExprBinaryOp(Id("count"), "Add", Num(1))) >>

\* n = <n0>; i = 0; count = 0; while i < n do <body> end
ProgWhile(n0) ==
    << Set("n", Num(n0)), Set("i", Num(0)), Set("count", Num(0)),
       StmtWhile(ExprBinaryOp(Id("i"), "LessThan", Id("n")), CountingBody) >>

\* n = <n0>; i = 0; count = 0; repeat <body> until n <= i
ProgRepeat(n0) ==
    << Set("n", Num(n0)), Set("i", Num(0)), Set("count", Num(0)),
       StmtRepeat(CountingBody, ExprBinaryOp(Id("n"), "LessEqual", Id("i"))) >>

\* function fn() for q = 1, n, s do <body>; s = s + 1 end end
\* n = <n0>; s = <s0>; i = 0; count = 0; fn()
ProgFor(n0, s0) ==
    << StmtFunction("fn", <<>>,
           << StmtFor("q", Num(1), Id("n"), Present(Id("s")),
                      CountingBody
                          \o <<Set("s", ExprBinaryOp(Id("s"), "Add", Num(1)))>>) >>),
       Set("n", Num(n0)), Set("s", Num(s0)), Set("i", Num(0)), Set("count", Num(0)),
       StmtExpr(Apply("fn", <<>>)) >>

\* function fn() for q = 1, n do <body> end end; n = <n0>; i = 0; count = 0; fn()
ProgForByOne(n0) ==
    << StmtFunction("fn", <<>>,
           << StmtFor("q", Num(1), Id("n"), Absent, CountingBody) >>),
       Set("n", Num(n0)), Set("i", Num(0)), Set("count", Num(0)),
       StmtExpr(Apply("fn", <<>>)) >>

RunLoops ==
    \E n0 \in 0..MaxEnd, s0 \in Steps :
        \/ RunFileParsed(ProgWhile(n0))
        \/ RunFileParsed(ProgRepeat(n0))
        \/ RunFileParsed(ProgFor(n0, s0))
        \/ RunFileParsed(ProgForByOne(n0))

NextLoops ==
    \/ RunLoops
    \/ Execute
    \/ ExecuteStmt
    \/ ExecuteAssignment
    \/ ExecuteWhile
    \/ ExecuteRepeat
    \/ ExecuteFor
    \/ ExecuteFunction
    \/ ExecuteBlock
    \/ EvaluateExpr
    \/ EvaluateBinaryOp
    \/ EvaluateFunctionCall
    \/ ExecuteUserFunction

SpecLoops == Init /\ [][NextLoops]_vars

\* The running activation calls evaluate_expr on the expression.
Evaluates(expr) ==
    /\ Len(kont') = Len(kont) + 1
    /\ kont'[Len(kont')] = FEvaluateExpr(expr)

\* The running activation calls execute_block on the body.
RunsBody(body) ==
    /\ Len(kont') = Len(kont) + 1
    /\ kont'[Len(kont')] = FExecuteBlock(body)

\* A while loop at the top of an iteration evaluates its condition, and runs
\* its body only on the truthy value of that evaluation.
WhileReevaluates ==
    Running("execute_while") =>
        IF Top.pc = "loop" THEN Evaluates(Top.condition)
        ELSE IF is_truthy(ret) THEN RunsBody(Top.body) /\ kont'[Len(kont)].pc = "loop"
        ELSE kont' = Rest

\* A repeat loop whose body has run evaluates its condition, and runs the body
\* again only on the falsy value of that evaluation.
RepeatReevaluates ==
    Running("execute_repeat") =>
        CASE Top.pc = "loop" -> RunsBody(Top.body) /\ kont'[Len(kont)].pc = "cond"
          [] Top.pc = "cond" -> Evaluates(Top.condition)
          [] OTHER -> IF is_truthy(ret) THEN kont' = Rest
                      ELSE RunsBody(Top.body) /\ kont'[Len(kont)].pc = "cond"

\* A numeric for whose body has run evaluates its end bound again.
ForReevaluates ==
    Running("execute_for") /\ Top.pc = "body" => Evaluates(Top.end)

\* A numeric for whose body has run evaluates nothing: it runs the body again
\* with the end bound and the step it had, or returns.
ForKeepsItsBounds ==
    Running("execute_for") /\ Top.pc = "body" =>
        \/ kont' = Rest
        \/ /\ RunsBody(Top.body)
           /\ kont'[Len(kont)].end_val = Top.end_val
           /\ kont'[Len(kont)].step_val = Top.step_val

\* The iterations of a loop that goes on while i < n, with i going up by one
\* and n down by one in each iteration: the condition is looked at each time.
Halved(n0) == (n0 + 1) \div 2

\* The iterations of for q = 1, n0, s0
Fixed(n0, s0) == IF n0 >= 1 THEN ((n0 - 1) \div s0) + 1 ELSE 0

\* The iterations of for q = 1, n, s when n goes down by one and s up by one
\* in each iteration and both are looked at each time; q is the next value of
\* the induction variable.
RECURSIVE Shrinking(_, _, _)
Shrinking(q, n, s) == IF q <= n THEN 1 + Shrinking(q + s + 1, n - 1, s + 1) ELSE 0

\* The iterations each loop program has made when it has run
LoopCounts ==
    \A n0 \in 0..MaxEnd, s0 \in Steps :
        /\ Returned(ProgWhile(n0)) => Global("count") = Number(Halved(n0))
        /\ Returned(ProgRepeat(n0))
           => Global("count") = Number(IF n0 = 0 THEN 1 ELSE Halved(n0))
        /\ Returned(ProgFor(n0, s0)) => Global("count") = Number(Fixed(n0, s0))
        /\ Returned(ProgForByOne(n0)) => Global("count") = Number(Fixed(n0, 1))

\* The iterations of the for programs if the end bound and the step were
\* evaluated in every iteration
Reevaluated(n0, s0) == Shrinking(1, n0, s0)

\* C17: every loop evaluates its controlling expressions in every iteration:
\* while its condition before the body, repeat its condition after the body,
\* a numeric for its end bound (and step) after the body, so that a body
\* that lowers the end bound lowers the number of iterations.
C17_LoopsReevaluate ==
    /\ [][WhileReevaluates /\ RepeatReevaluates /\ ForReevaluates]_vars
    /\ [](\A n0 \in 0..MaxEnd, s0 \in Steps :
             Returned(ProgFor(n0, s0))
             => Global("count") = Number(Reevaluated(n0, s0)))

\* C17: while evaluates its condition before every iteration and repeat after
\* every iteration; a numeric for evaluates its end bound and its step once,
\* before the first iteration, so that a body that changes them does not
\* change the number of iterations.
C17_ForBoundsOnce ==
    /\ [][WhileReevaluates /\ RepeatReevaluates /\ ForKeepsItsBounds]_vars
    /\ []LoopCounts

\* C17: the loop for q = 1, n, s has run three times from n = 3 and s = 1,
\* although its body left n = 0 and s = 4.
C17_Witness ==
    /\ Returned(ProgFor(3, 1))
    /\ Global("count") = Number(3)
    /\ Global("n") = Number(0)
    /\ Global("s") = Number(4)

(***************************************************************************)
(* C22: the lexer and the parser, loop by loop.  The driver's tokenize and *)
(* parse calls are run one iteration of their while loop at a time; kont   *)
(* holds the one activation, with the cursor of the Lexer or the Parser.   *)
(***************************************************************************)
\* The longest source text and the longest token vector handed in
MaxChars == 3
MaxTokens == 3

\* The characters of the source texts: a letter, a digit, a blank, a line
\* end, the starts of a comment, of a string, of an escape, of the tokens of
\* two and three characters, and a character no token starts with
Characters == {"a", "1", " ", "\n", "-", "\"", "\\", ".", "=", "~", "@"}

Texts == UNION {[1..n -> Characters] : n \in 0..MaxChars}

\* The tokens of the token vectors: what starts a statement, what ends a
\* block, the end-marker, and what expressions and lists are made of
TokenKinds ==
    { Token("If"), Token("ElseIf"), Token("While"), Token("Repeat"), Token("Until"),
      Token("For"), Token("Function"), Token("Local"), Token("Return"),
      Token("Break"), Token("End"), EOF, TokenIdentifier("a"), Token("Assign"),
      Token("Comma"), Token("Plus"), Token("Minus"), Token("Not"),
      Token("LeftParen"), Token("RightParen") }

TokenVectors == UNION {[1..n -> TokenKinds] : n \in 0..MaxTokens}

\* The activations of Lexer::tokenize and of Parser::parse
FTokenize(position) == [fn |-> "tokenize", position |-> position]

FParse(position, statements) ==
    [fn |-> "parse", position |-> position, statements |-> statements]

Lexing == kont # <<>> /\ kont[1].fn = "tokenize"

Parsing == kont # <<>> /\ kont[1].fn = "parse"

\* run_file: Lexer::new(source), before the call of tokenize
NewLexer(input) ==
    /\ source = input
    /\ tokens = <<>>
    /\ kont = <<FTokenize(0)>>

\* Parser::new(tokens), before the call of parse
NewParser(toks) ==
    /\ source = <<>>
    /\ tokens = toks
    /\ kont = <<FParse(0, <<>>)>>

\* The driver has made a Lexer of a source text, or a Parser of a token
\* vector, and is about to call it; the Vm is not made yet.
InitFrontEnd ==
    /\ \/ \E input \in Texts : NewLexer(input)
       \/ \E toks \in TokenVectors : NewParser(toks)
    /\ allocated = 0
    /\ globals = EmptyMap
    /\ call_stack = <<>>
    /\ ret = Nil
    /\ status = "running"
    /\ stmts = <<>>
    /\ result = Nil
    /\ execs = 1

\* Lexer::tokenize: one iteration of while let Some(token) = self.next_token(),
\* given what next_token returned.  A token other than EOF is pushed and the
\* loop goes on; EOF is pushed and ends the loop; no token ends the loop.
\* The driver hands the vector returned to Parser::new.
tokenize_next(toks, next) ==
    IF next.token.some THEN Append(toks, next.token.x) ELSE toks

tokenize_goes_on(next) == next.token.some /\ next.token.x # EOF

Tokenize ==
    /\ status = "running"
    /\ Lexing
    /\ tokens' = tokenize_next(tokens, next_token(source, kont[1].position))
    /\ kont' = IF tokenize_goes_on(next_token(source, kont[1].position))
               THEN <<FTokenize(next_token(source, kont[1].position).position)>>
               ELSE <<FParse(0, <<>>)>>
    /\ UNCHANGED <<source, allocated, globals, call_stack, ret, status, stmts,
                   result, execs>>

\* Parser::parse: one iteration of while !self.is_at_end(), given what
\* parse_statement returned
parse_iteration(statements, stmt) == FParse(stmt.position, Pushed(statements, stmt))

\* Parser::parse: one iteration of its loop, or its return
Parse ==
    /\ status = "running"
    /\ Parsing
    /\ kont' = IF is_at_end(tokens, kont[1].position)
               THEN <<>>
               ELSE <<parse_iteration(kont[1].statements,
                                      parse_statement(tokens, kont[1].position))>>
    /\ stmts' = IF is_at_end(tokens, kont[1].position)
                THEN kont[1].statements
                ELSE stmts
    /\ status' = IF is_at_end(tokens, kont[1].position) THEN "idle" ELSE status
    /\ UNCHANGED <<source, tokens, allocated, globals, call_stack, ret, result, execs>>

NextFrontEnd ==
    \/ Tokenize
    \/ Parse

\* ENABLED <<Tokenize>>_vars and ENABLED <<Parse>>_vars as state predicates:
\* the loop has an iteration to make, or returns, and that changes the state.
TokenizeEnabled ==
    /\ status = "running"
    /\ Lexing
    /\ tokenize_goes_on(next_token(source, kont[1].position))
       => FTokenize(next_token(source, kont[1].position).position) # kont[1]

ParseEnabled ==
    /\ status = "running"
    /\ Parsing
    /\ ~is_at_end(tokens, kont[1].position)
       => parse_iteration(kont[1].statements,
                          parse_statement(tokens, kont[1].position)) # kont[1]

\* The driver's one thread goes on as long as the loop it is in has a step
\* to take: weak fairness of the step, WF_vars(NextFrontEnd), with ENABLED
\* written out.
SpecFrontEnd ==
    /\ InitFrontEnd
    /\ [][NextFrontEnd]_vars
    /\ []<>~(TokenizeEnabled \/ ParseEnabled) \/ []<><<NextFrontEnd>>_vars

\* Parser::parse has returned.
Finished == status = "idle"

\* The cursor at the first end-marker of the token vector, or at its length
\* if it has none
RECURSIVE FirstEOF(_, _)
FirstEOF(toks, position) ==
    IF position >= Len(toks) \/ toks[position + 1] = EOF
    THEN position
    ELSE FirstEOF(toks, position + 1)

Limit(toks) == FirstEOF(toks, 0)

\* An iteration of tokenize that goes on has moved the Lexer's cursor on, and
\* the cursor is within the text.
TokenizeConsumes ==
    Lexing /\ Lexing' => kont'[1].position > kont[1].position

LexerCursorWithin == Lexing => kont[1].position <= Len(source)

\* An iteration of parse has moved the Parser's cursor on.
ParseConsumes ==
    Parsing /\ Parsing' => kont'[1].position > kont[1].position

\* The Parser's cursor is not past the first end-marker nor past the length.
CursorWithin == Parsing => kont[1].position <= Limit(tokens)

\* From every cursor before the end of the Parser's tokens, the statement
\* parsed by an iteration of the statement loop or of the block loop takes at
\* least one token, the operator and operand of an iteration of the
\* expression loop take at least one token, and expressions and blocks leave
\* the cursor where it was or further on; none leaves it past the first
\* end-marker or the length.
LoopsConsume ==
    Parsing =>
        \A p \in 0..Limit(tokens) :
            /\ p < Limit(tokens)
               => parse_statement(tokens, p).position \in (p + 1)..Limit(tokens)
            /\ match_binary_op(tokens, p).some
               => parse_unary(tokens, p + 1).position \in (p + 1)..Limit(tokens)
            /\ parse_expression(tokens, p).position \in p..Limit(tokens)
            /\ parse_block(tokens, p).position \in p..Limit(tokens)

\* C22: tokenize returns for every source text and parse returns for every
\* token vector, with or without an end-marker at its end: every iteration
\* of the statement, block and expression loops takes at least one token,
\* and the cursor is never past the first end-marker nor past the length.
C22_FrontEndTerminates ==
    /\ <>Finished
    /\ [][TokenizeConsumes /\ ParseConsumes]_vars
    /\ [](LexerCursorWithin /\ CursorWithin /\ LoopsConsume)

\* C22: the text a@ was lexed to the one token a, without an end-marker, and
\* parse has returned the one statement a.
C22_Witness ==
    /\ Finished
    /\ source = <<"a", "@">>
    /\ tokens = <<TokenIdentifier("a")>>
    /\ stmts = <<StmtExpr(Id("a"))>>

====
